---- MODULE Spec2Model ----
(***************************************************************************)
(* A model of the DenyStealthCookies content script (v1.4.0): the phase    *)
(* orchestrator runDeny and the strategies it sequences, the module-level  *)
(* RunResult R they all write to, auto mode and teaching mode.             *)
(*                                                                         *)
(* Text is modelled as a sequence of lower-case word tokens: every pattern *)
(* of the script is case-insensitive and textOf collapses white space, so  *)
(* a regular expression anchored with ^...$ is the set of token sequences  *)
(* it accepts and a \b...\b pattern is a word or phrase occurring in the   *)
(* sequence.                                                               *)
(***************************************************************************)
EXTENDS Integers, Sequences, FiniteSets, TLC

\* ------------------------------------------------------------------ bounds
\* NBtn click targets, NTog toggle-like inputs and NPat stored patterns on a page of
\* at most MaxElems parts; MaxRuns invocations of runDeny in flight.
NBtn == 2
NTog == 2
NPat == 2
MaxElems == 3
MaxRuns == 2

\* ------------------------------------------------------- program constants
MAX_LEARNED_PATTERNS_PER_DOMAIN == 10

\* ------------------------------------------------------------ token helpers
Opt(S) == S \cup {<<>>}

Cat(A, B) == {a \o b : a \in A, b \in B}

Words(W) == {<<w>> : w \in W}

HasWord(t, W) == \E i \in DOMAIN t : t[i] \in W

HasPhrase(t, P) ==
  \E p \in P : \E i \in 1..(Len(t) - Len(p) + 1) : SubSeq(t, i, i + Len(p) - 1) = p

EndsWith(t, P) ==
  \E p \in P : Len(p) <= Len(t) /\ SubSeq(t, Len(t) - Len(p) + 1, Len(t)) = p

\* ---------------------------------------------------------------- patterns
Cookies == Opt({<<"cookie">>, <<"cookies">>})

Necessary == Words({"necessary", "essential", "required", "functional"})

\* DENY_PATTERNS that are anchored at both ends: the token sequences accepted.
DENY_EXACT ==
  Cat(Words({"deny", "reject", "refuse", "decline", "object"}), Opt({<<"all">>}))
  \cup {<<"object", "to", "all">>, <<"no", "thanks">>, <<"no", "thank">>, <<"skip">>}
  \cup Cat(Cat(Opt({<<"i">>}), {<<"disagree">>}), Opt({<<"all">>}))
  \cup Cat(Cat(Cat(Opt({<<"only">>, <<"just">>}), Necessary), Cookies), Opt({<<"only">>}))
  \cup Cat(Cat(Cat(Cat(Words({"allow", "use", "accept"}), Opt({<<"only">>})),
                   Necessary), Cookies), Opt({<<"only">>}))
  \cup Cat({<<"continue", "without">>},
           Words({"accepting", "agreeing", "consenting", "cookie", "cookies"}))
  \cup Cat({<<"proceed", "without">>}, Words({"accepting", "consenting"}))
  \cup Cat({<<"do", "not">>}, Words({"accept", "consent", "agree"}))
  \cup Cat(Cat({<<"i">>}, {<<"do", "not">>, <<"don't">>, <<"dont">>}),
           Words({"accept", "consent", "agree"}))
  \cup Cat({<<"opt", "out">>}, Opt({<<"of", "all">>}))
  \cup Cat(Cat({<<"withdraw">>}, Opt({<<"all">>})), Opt({<<"consent">>}))
  \cup {<<"tout", "refuser">>, <<"refuser">>, <<"refuser", "tout">>, <<"non", "merci">>,
        <<"continuer", "sans", "accepter">>,
        <<"alle", "ablehnen">>, <<"ablehnen">>, <<"nein", "danke">>,
        <<"rechazar">>, <<"rechazar", "todo">>, <<"no", "gracias">>,
        <<"rifiuta">>, <<"rifiuta", "tutto">>, <<"no", "grazie">>,
        <<"rejeitar">>, <<"rejeitar", "tudo">>, <<"não", "obrigado">>,
        <<"afwijzen">>, <<"weigeren">>}

\* DENY_PATTERNS anchored at the end only: the endings accepted.
DENY_SUFFIX ==
  Cat(Cat({<<"reject">>},
          Words({"additional", "all", "optional", "tracking", "analytics", "marketing"})
            \cup {<<"non", "essential">>}), Cookies)
  \cup Cat(Cat({<<"decline">>},
               Words({"additional", "all", "optional", "tracking"})
                 \cup {<<"non", "essential">>}), Cookies)
  \cup Cat(Cat({<<"deny">>},
               Words({"additional", "all", "optional"}) \cup {<<"non", "essential">>}),
           Cookies)

DENY_PATTERNS(t) == t \in DENY_EXACT \/ EndsWith(t, DENY_SUFFIX)

Prefs == {<<"preference">>, <<"preferences">>, <<"choice">>, <<"choices">>,
          <<"setting">>, <<"settings">>, <<"selection">>}

CONFIRM_PATTERNS(t) ==
  t \in Cat(Cat(Words({"save", "confirm"}), Opt({<<"my">>})), Prefs)
        \cup Cat(Cat(Words({"accept", "allow"}), Opt({<<"my">>})), {<<"selection">>})
        \cup Cat({<<"apply">>}, Opt({<<"setting">>, <<"settings">>}))
        \cup Cat({<<"update">>}, Opt({<<"preference">>, <<"preferences">>}))
        \cup Words({"done", "close", "dismiss", "ok", "okay", "continue",
                    "speichern", "weiter"})
        \cup {<<"got", "it">>}
        \cup Cat({<<"enregistrer">>},
                 Opt({<<"mes", "choix">>, <<"mes", "préférences">>,
                      <<"mes", "preferences">>}))

\* The patterns tryManagePanel opens a settings panel by.
MANAGE_PANEL_PATTERNS(t) ==
  EndsWith(t, Cat({<<"manage">>},
                  Opt(Words({"preference", "preferences", "cookie", "cookies",
                             "setting", "settings", "consent"}))))
  \/ t \in Cat(Opt({<<"cookie">>}), Words({"setting", "settings"}))
           \cup Words({"preference", "preferences", "detail", "details", "customize",
                       "customise", "einstellungen"})
           \cup {<<"more", "option">>, <<"more", "options">>, <<"learn", "more">>,
                 <<"more", "information">>}
           \cup Cat(Words({"show", "view"}), Words({"more", "detail", "details"}))
           \cup Cat(Cat({<<"view">>}, Opt({<<"our">>})), Words({"partner", "partners"}))
           \cup Cat(Cat(Words({"show", "see"}), Opt({<<"all">>})),
                    Words({"partner", "partners"}))
           \cup Cat({<<"vendor">>}, Words({"preference", "preferences"}))
           \cup Cat({<<"privacy">>}, Words({"setting", "settings"}))
           \cup Cat(Words({"read", "see"}), {<<"more">>})
  \/ (Len(t) >= 1 /\ t[1] = "gérer")

\* The tab labels navigateAndScrapeAllSections clicks through.
TAB_PATTERNS(t) ==
  t \in Words({"partner", "partners", "vendor", "vendors", "purpose", "purposes",
               "feature", "features", "stack", "stacks", "personalisation",
               "personalization", "advertising", "analytic", "analytics",
               "measurement"})
        \cup Cat({<<"legitimate">>}, Words({"interest", "interests"}))
        \cup Cat({<<"special">>}, Words({"purpose", "purposes", "feature", "features"}))
        \cup {<<"third", "party">>, <<"third", "parties">>, <<"thirdparty">>,
              <<"custom", "vendor">>, <<"custom", "vendors">>,
              <<"content", "selection">>}

\* The labels of the accordion sections navigateAndScrapeAllSections expands; the
\* patterns are not anchored.
Numerals == {"2", "12", "123"}

SECTION_PATTERNS(t) ==
  HasPhrase(t, Cat({<<"show">>, <<"show", "all">>, <<"show", "more">>, <<"view">>,
                    <<"view", "all">>, <<"see">>, <<"see", "all">>, <<"expand">>},
                   Words({"vendor", "vendors"}))
               \cup Cat({<<"see">>, <<"see", "all">>},
                        Words({"partner", "partners", "purpose", "purposes"}))
               \cup Cat({<<"expand">>}, Words({"all", "partner", "partners"}))
               \cup Cat(Words(Numerals), Words({"vendor", "vendors"})))

\* Keywords whose presence in a toggle's label or context protects it.
MANDATORY_KW ==
  {<<"strictly", "necessary">>, <<"essential">>, <<"necessary", "cookies">>,
   <<"technically", "required">>, <<"technically", "necessary">>,
   <<"basic", "functionality">>, <<"security">>, <<"fraud", "prevention">>,
   <<"detect", "fraud">>, <<"ensure", "security">>, <<"fix", "errors">>,
   <<"deliver", "content">>, <<"technically", "deliver">>, <<"functional">>,
   <<"prevent", "fraud">>, <<"system", "security">>, <<"required">>, <<"mandatory">>,
   <<"performance", "of", "contract">>, <<"legal", "obligation">>,
   <<"vital", "interests">>, <<"deliver", "and", "present">>,
   <<"technical", "compatibility">>, <<"transmission", "of", "content">>}

\* The semantic library's list: the same keywords and their equivalents in
\* German, French, Spanish, Italian, Portuguese and Dutch.
MANDATORY_KEYWORDS ==
  MANDATORY_KW
  \cup {<<"strikt", "notwendig">>, <<"strictement", "nécessaire">>,
        <<"estrictamente", "necesario">>, <<"strettamente", "necessario">>,
        <<"estritamente", "necessário">>, <<"strikt", "noodzakelijk">>}

\* String.includes on the lower-cased text: a keyword occurs as consecutive
\* words, or inside a longer word of the text (Within lists those of the
\* vocabulary used here).
Within == {<<"functional", "functionality">>, <<"essential", "nonessential">>,
           <<"required", "unrequired">>}

hasKeyword(text, kws) ==
  \E k \in kws :
    \/ HasPhrase(text, {k})
    \/ Len(k) = 1 /\ \E i \in DOMAIN text : <<k[1], text[i]>> \in Within

\* ------------------------------------------------------------- classifier
\* classifyButton of the content script, over combined = text + ' ' + attrs.
acceptPatterns(c) ==
  \/ HasWord(c, {"accept", "allow", "agree", "consent", "yes", "acceptall",
                 "allowall", "accepteverything", "alloweverything"})
  \/ HasWord(c, {"iagree", "gotit", "okay", "ok"})
  \/ HasPhrase(c, {<<"i", "agree">>, <<"got", "it">>})
  \/ HasWord(c, {"continue"})

rejectPatterns(c) ==
  \/ HasWord(c, {"reject", "deny", "decline", "refuse", "disagree", "no"})
  \/ HasWord(c, {"optout", "donot", "dont", "don't"})
  \/ HasPhrase(c, {<<"opt", "out">>, <<"do", "not">>})
  \/ HasPhrase(c, Cat({<<"only">>}, Words({"necessary", "essential", "required"}))
                    \cup {<<"necessary", "only">>})
  \/ HasWord(c, {"onlynecessary", "onlyessential", "onlyrequired", "necessaryonly"})
  \/ HasPhrase(c, {<<"continue", "without">>, <<"proceed", "without">>,
                   <<"no", "thanks">>, <<"no", "thank">>})
  \/ HasWord(c, {"continuewithout", "proceedwithout", "nothanks", "nothank"})
  \/ HasPhrase(c, {<<"save", "choice">>, <<"save", "my", "choice">>,
                   <<"confirm", "choice">>})
  \/ HasWord(c, {"savechoice", "savemychoice", "confirmchoice"})

managePatterns(c) ==
  \/ HasWord(c, {"manage", "customize", "settings", "preferences", "options",
                 "choices", "learnmore", "moreoptions"})
  \/ HasPhrase(c, {<<"learn", "more">>, <<"more", "options">>})

\* /\bdo\s*not\s*(reject|deny|decline)\b/ on combined.
NegatedReject(c) ==
  \/ HasPhrase(c, Cat({<<"do", "not">>, <<"donot">>}, Words({"reject", "deny", "decline"})))
  \/ HasWord(c, {"donotreject", "donotdeny", "donotdecline"})

classifyButton(text, attrs) ==
  LET combined == text \o attrs IN
  IF rejectPatterns(combined) /\ ~NegatedReject(combined) THEN "reject"
  ELSE IF acceptPatterns(combined) /\ ~HasWord(text, {"without", "no"}) THEN "accept"
  ELSE IF managePatterns(combined) THEN "manage"
  ELSE "unknown"

\* -------------------------------------------------------------------- state
VARIABLES
  btn,              \* the page's click targets, in document order
  tog,              \* the page's toggle-like inputs, in document order
  host,             \* what else the host page is: pay wall, texts, vendor API
  vis,              \* which containers are rendered: the banner, a settings panel
  checked,          \* checked[i]: the state of toggle i
  store,            \* chrome.storage.local: this site's learned patterns
  learnedPatterns,  \* the script's copy of them (module level)
  R,                \* the RunResult (module level)
  elapsed,          \* Date.now() - operationStartTime against MAX_TOTAL_RUNTIME
  pc,               \* pc[r]: where invocation r of runDeny stands
  loc,              \* loc[r]: its local variables
  result,           \* result[r]: what it returned to its caller
  hist,             \* what the script did to the page: clicks, toggles, calls
  teachingMode,     \* the teachingMode flag (module level)
  auto,             \* checkAutoMode: its position, its observer, its hasRun flag
  teach,            \* teaching mode: its click handler and what it has done
  lib               \* the pattern library: the call in hand and its outcome; on a
                    \* page, the last answer to SCAN_ONLY

vars == <<btn, tog, host, vis, checked, store, learnedPatterns, R, elapsed, pc, loc,
          result, hist, teachingMode, auto, teach, lib>>

modes == <<teachingMode, teach, lib>>

page == <<btn, tog, host>>

Runs == 1..MaxRuns

\* ---------------------------------------------------------------- the page
\* sel: a vendor selector the element matches, if any. The selector lists of the
\* script, restricted to the selectors that occur on the pages modelled.
knownDenySelectors == <<"#onetrust-reject-all-handler", "#sp_message_container button">>

oneTrustSelectors == {"#onetrust-reject-all-handler", ".save-preference-btn-handler"}

ucDenySelectors == <<"button.uc-list-button__deny">>

confirmSelectors == <<".save-preference-btn-handler">>

Button(text, place, sel) == [text |-> text, attrs |-> <<>>, place |-> place, sel |-> sel]

Buttons ==
  {Button(<<"reject", "all">>, "banner", "none"),
   Button(<<"reject", "all">>, "panel", "none"),
   Button(<<"accept", "all", "cookies">>, "banner", "none"),
   Button(<<"accept", "all", "cookies">>, "banner", "#sp_message_container button"),
   Button(<<"manage", "preferences">>, "banner", "none"),
   Button(<<"vendors">>, "banner", "none"),
   Button(<<"ok">>, "banner", "none"),
   Button(<<"ok">>, "panel", ".save-preference-btn-handler"),
   Button(<<"ok">>, "banner", "button.uc-list-button__deny")}

\* on: checked when the page is loaded; clickWorks: click() changes the state.
Toggle(label, place, disabled, clickWorks) ==
  [label |-> label, ctx |-> <<>>, place |-> place, disabled |-> disabled, on |-> TRUE,
   clickWorks |-> clickWorks]

Toggles ==
  {Toggle(<<"strictly", "necessary">>, "panel", FALSE, TRUE),
   Toggle(<<"strikt", "notwendig">>, "panel", FALSE, TRUE),
   Toggle(<<"marketing">>, "panel", FALSE, TRUE),
   Toggle(<<"marketing">>, "panel", FALSE, FALSE),
   Toggle(<<"marketing">>, "panel", TRUE, TRUE),
   Toggle(<<"marketing">>, "banner", FALSE, TRUE),
   Toggle(<<"marketing">>, "iframe", FALSE, TRUE),
   [Toggle(<<"marketing">>, "panel", FALSE, TRUE) EXCEPT !.on = FALSE]}

Apis == {"none", "OneTrust", "Didomi", "Osano", "Quantcast", "TCF"}

Bodies == {<<>>, <<"subscribe", "to", "continue">>, <<"premium", "content", "continue">>}

\* body: the page's text; privacyKw: the containers' text has a cookie keyword;
\* fresh: the containers appeared within the last two seconds; api: the vendor API;
\* react: how the page reacts to a click.
Hosts == [body : Bodies, privacyKw : BOOLEAN, fresh : BOOLEAN, api : Apis, react : {"any"}]

\* A stored pattern: its text, the element its selector finds (0: none), its
\* successCount, and whether it was learned more than LEARNED_PATTERN_EXPIRY_DAYS ago.
Pattern(text, selector, n, expired) ==
  [text |-> text, selector |-> selector, successCount |-> n, expired |-> expired]

Patterns ==
  {Pattern(<<"reject", "all">>, 0, 1, FALSE),
   Pattern(<<"reject", "all">>, 1, 2, FALSE),
   Pattern(<<"accept", "all", "cookies">>, 1, 1, FALSE),
   Pattern(<<"reject", "all">>, 2, 1, TRUE)}

SeqsUpTo(S, n) == UNION {[1..k -> S] : k \in 0..n}

isVisible(el) == el.place = "iframe" \/ vis[el.place]

VisibleButtons == {i \in DOMAIN btn : isVisible(btn[i])}

\* The first element of a set of indices, in document order; 0 when there is none.
First(S) == IF S = {} THEN 0 ELSE CHOOSE i \in S : \A j \in S : i <= j

\* isBannerVisible: a rendered consent container whose text names cookies.
isBannerVisible == host.privacyKw /\ (vis.banner \/ vis.panel)

\* findAllModals: the rendered containers, highest z-index first (a settings panel
\* opens above the banner).
findAllModals ==
  (IF vis.panel THEN <<"panel">> ELSE <<>>) \o (IF vis.banner THEN <<"banner">> ELSE <<>>)

ButtonsIn(modal) == {i \in VisibleButtons : btn[i].place = modal}

\* The mutant has no recency window.
isPrivacyModalAnyTime(modal, withRef) ==
  LET texts == {btn[i].text : i \in ButtonsIn(modal)}
      hasChoiceKeyword ==
        \E t \in texts : HasWord(t, {"accept", "reject", "agree", "disagree", "allow",
                                    "deny", "decline", "refuse", "manage", "settings",
                                    "preferences"})
      hasRejectButton ==
        \E t \in texts : HasWord(t, {"reject", "decline", "deny"})
                         \/ HasPhrase(t, {<<"no", "thanks">>, <<"no", "thank">>})
      hasAcceptButton == \E t \in texts : HasWord(t, {"accept", "agree", "allow", "yes"})
  IN /\ (host.privacyKw /\ hasChoiceKeyword) \/ (hasRejectButton /\ hasAcceptButton)
     /\ ButtonsIn(modal) # {}

\* isPrivacyModal; withRef: a referenceTime (the manage click) was passed.
isPrivacyModal(modal, withRef) ==
  LET texts == {btn[i].text : i \in ButtonsIn(modal)}
      hasChoiceKeyword ==
        \E t \in texts : HasWord(t, {"accept", "reject", "agree", "disagree", "allow",
                                    "deny", "decline", "refuse", "manage", "settings",
                                    "preferences"})
      hasRejectButton ==
        \E t \in texts : HasWord(t, {"reject", "decline", "deny"})
                         \/ HasPhrase(t, {<<"no", "thanks">>, <<"no", "thank">>})
      hasAcceptButton == \E t \in texts : HasWord(t, {"accept", "agree", "allow", "yes"})
      appearedRecently == withRef \/ host.fresh
  IN /\ (host.privacyKw /\ hasChoiceKeyword) \/ (hasRejectButton /\ hasAcceptButton)
     /\ ButtonsIn(modal) # {}
     /\ appearedRecently

\* detectCMPs: a vendor object of the page, else a rendered generic consent dialog.
detectCMPs ==
  IF host.api # "none" THEN host.api
  ELSE IF /\ vis.banner /\ host.privacyKw
          /\ \E i \in ButtonsIn("banner") :
               HasWord(btn[i].text, {"agree", "accept", "reject", "deny"})
       THEN "Generic"
       ELSE "null"

\* ------------------------------------------------------------ the RunResult
freshResults ==
  [unchecked |-> <<>>, mandatory |-> <<>>, errors |-> <<>>,
   cmpDetected |-> "null", cmpMethod |-> "null",
   bannerFound |-> FALSE, bannerClosed |-> FALSE,
   totalTogglesFound |-> 0, sectionsProcessed |-> 0, iframesScanned |-> 0,
   processedLabels |-> {}, hasProcessedLabels |-> TRUE,
   consentOrPay |-> FALSE]

\* An entry of the denied or kept list; by is the invocation that pushed it.
Entry(tmpl, text, category, type, r) ==
  [label |-> <<tmpl, text>>, category |-> category, type |-> type, by |-> r]

Key(e) == <<e.label, e.category, e.type>>

\* dedupe: keeps the first entry of every label + category.
RECURSIVE dedupe(_)
dedupe(arr) ==
  IF arr = <<>> THEN <<>>
  ELSE LET init == dedupe(SubSeq(arr, 1, Len(arr) - 1))
           last == arr[Len(arr)]
       IN IF \E j \in DOMAIN init :
               init[j].label = last.label /\ init[j].category = last.category
          THEN init ELSE Append(init, last)

\* ------------------------------------------------------------ what was done
\* An event of hist: the script clicked a button, changed a toggle, called a vendor
\* API, hid an element, began a phase or ended one with success. late: after the
\* deadline.
Ev(ev, n, phase, r) ==
  [ev |-> ev, n |-> n, phase |-> phase, late |-> elapsed = "gt", by |-> r]

Phases == <<"learned", "universal", "deny", "api", "manage", "sweep", "iframe", "hide">>

PhaseNo(p) == CHOOSE k \in DOMAIN Phases : Phases[k] = p

\* What a click may do to the page: the banner may go, a panel may open or close.
\* host.react says which: anything, or always the same thing.
Reactions(v) ==
  CASE host.react = "close" -> {[banner |-> FALSE, panel |-> FALSE]}
    [] host.react = "open" -> {[v EXCEPT !.panel = TRUE]}
    [] host.react = "stay" -> {v}
    [] OTHER -> {w \in [banner : BOOLEAN, panel : BOOLEAN] : w.banner => v.banner}

\* ------------------------------------------------------------------ toggles
\* The operators below take and return the bundle S = [R, checked, hist, threw] of
\* what a synchronous stretch of code reads and writes.
Bundle == [R |-> R, checked |-> checked, hist |-> hist, threw |-> FALSE]

ErrEntry(tmpl, text, r) ==
  [label |-> <<tmpl, text>>, category |-> "", type |-> "error", by |-> r]

safeUncheck(S, i, label, category, type, phase, r) ==
  LET dedupeKey == <<<<"", label>>, category, type>> IN
  IF ~S.R.hasProcessedLabels
  THEN [S EXCEPT !.R.errors = Append(@, ErrEntry("", label, r))]
  ELSE IF dedupeKey \in S.R.processedLabels \/ ~S.checked[i] THEN S
  ELSE [S EXCEPT !.checked[i] = FALSE,
                 !.hist = @ \cup {Ev("toggle", i, phase, r)},
                 !.R.processedLabels = @ \cup {dedupeKey},
                 !.R.unchecked = Append(@, Entry("", label, category, type, r))]

\* One toggle of scrapeToggles' loop.
scrapeToggle(S, i, phase, r) ==
  LET t == tog[i]
      all == t.label \o t.ctx
      locked == <<<<"", t.label>>, "Locked by CMP", "system">>
      kept == <<<<"", t.label>>, "Strictly Necessary", "consent">>
      cat == IF HasPhrase(all, {<<"legitimate", "interest">>}) THEN "Legitimate Interest"
             ELSE IF HasPhrase(all, {<<"special", "feature">>}) THEN "Special Feature"
             ELSE IF HasWord(all, {"vendor", "vendors"}) THEN "Vendor Consent"
             ELSE "Consent"
  IN
  IF S.threw \/ ~isVisible(t) THEN S
  ELSE IF t.disabled
  THEN IF ~S.R.hasProcessedLabels THEN [S EXCEPT !.threw = TRUE]
       ELSE IF locked \in S.R.processedLabels THEN S
       ELSE [S EXCEPT !.R.processedLabels = @ \cup {locked},
                      !.R.mandatory =
                        Append(@, Entry("", t.label, "Locked by CMP", "system", r))]
  ELSE IF hasKeyword(all, MANDATORY_KW)
  THEN IF ~S.checked[i] THEN S
       ELSE IF ~S.R.hasProcessedLabels THEN [S EXCEPT !.threw = TRUE]
       ELSE IF kept \in S.R.processedLabels THEN S
       ELSE [S EXCEPT !.R.processedLabels = @ \cup {kept},
                      !.R.mandatory =
                        Append(@, Entry("", t.label, "Strictly Necessary", "consent", r))]
  ELSE IF S.checked[i] THEN safeUncheck(S, i, t.label, cat, "consent", phase, r)
  ELSE S

RECURSIVE scrapeFrom(_, _, _, _, _)
scrapeFrom(S, i, ctx, phase, r) ==
  IF i > Len(tog) THEN S
  ELSE scrapeFrom(IF tog[i].place \in ctx THEN scrapeToggle(S, i, phase, r) ELSE S,
                  i + 1, ctx, phase, r)

Document == {"banner", "panel"}

\* scrapeToggles over the toggles of a context: the bundle afterwards.
scrapeToggles(S, ctx, phase, r) ==
  scrapeFrom([S EXCEPT !.R.totalTogglesFound =
                         @ + Cardinality({i \in DOMAIN tog : tog[i].place \in ctx})],
             1, ctx, phase, r)

\* Its return value: the toggles it unchecked.
Unchecked(S, T) == Cardinality(T.hist \ S.hist)

\* document.querySelector: the first element a selector matches, 0 when none.
querySelector(sels) == First({i \in DOMAIN btn : btn[i].sel \in sels})

\* for (sel of sels) { b = querySelector(sel); if (b && isVisible(b)) ... }: the
\* element the loop stops at, 0 when it runs through.
bySelectors(sels) ==
  LET hit == First({k \in DOMAIN sels : querySelector({sels[k]}) \in VisibleButtons})
  IN IF hit = 0 THEN 0 ELSE querySelector({sels[hit]})

\* tryConfirm: the button it clicks, 0 when it finds none.
tryConfirm ==
  LET bySel == bySelectors(confirmSelectors)
  IN IF bySel # 0 THEN bySel
     ELSE First({i \in VisibleButtons : CONFIRM_PATTERNS(btn[i].text)})

\* tryHideBanner: the container it hides ("none": it finds nothing to hide).
tryHideBanner ==
  IF host.privacyKw /\ vis.banner THEN "banner"
  ELSE IF host.privacyKw /\ vis.panel THEN "panel"
  ELSE "none"

\* ----------------------------------------------------------- learned patterns
RECURSIVE insertDesc(_, _)
insertDesc(sorted, p) ==
  IF sorted = <<>> THEN <<p>>
  ELSE IF Head(sorted).successCount >= p.successCount
  THEN <<Head(sorted)>> \o insertDesc(Tail(sorted), p)
  ELSE <<p>> \o sorted

\* The list in the order it is stored in.
asStored(ps) == ps

RECURSIVE sortDesc(_)
\* [...patterns].sort((a, b) => b.successCount - a.successCount), a stable sort.
sortDesc(ps) ==
  IF ps = <<>> THEN <<>> ELSE insertDesc(sortDesc(SubSeq(ps, 1, Len(ps) - 1)), ps[Len(ps)])

\* The filter of loadLearnedPatterns on one site's list.
unexpired(ps) == SelectSeq(ps, LAMBDA p : ~p.expired)

\* loadLearnedPatterns: what is in the store, less the expired patterns.
loadLearnedPatterns == unexpired(store)

\* saveLearnedPattern: the list afterwards.
saveLearnedPattern(ps, text, selector) ==
  LET same(p) == p.text = text /\ p.selector = selector
      kept == IF Len(ps) >= MAX_LEARNED_PATTERNS_PER_DOMAIN
              THEN SubSeq(sortDesc(ps), 1, MAX_LEARNED_PATTERNS_PER_DOMAIN - 1)
              ELSE ps
      first == First({k \in DOMAIN ps : same(ps[k])})
  IN IF first = 0 THEN Append(kept, Pattern(text, selector, 1, FALSE))
     ELSE [ps EXCEPT ![first].successCount = @ + 1]

\* The element a learned pattern finds: by its selector, else by its exact text.
patternButton(p) ==
  IF p.selector \in DOMAIN btn THEN p.selector
  ELSE First({i \in VisibleButtons : btn[i].text = p.text})

\* The next pattern, from position i of the sorted list on, whose element is found
\* and visible; 0 when there is none.
nextPattern(sorted, i) ==
  First({k \in DOMAIN sorted :
           k >= i /\ patternButton(sorted[k]) \in VisibleButtons})

\* ------------------------------------------------------------------- runDeny
\* A detection that finds no pay wall.
detectNothing == FALSE

\* detectConsentOrPay: a pay wall phrase in the body's text, or the words of one in
\* the banner's text (the banner is a dialog; the body's text is displayed in it).
payKeywords ==
  {<<"subscribe", "to", "continue">>, <<"subscribe", "to", "read">>,
   <<"sign", "up", "to", "continue">>, <<"register", "to", "continue">>,
   <<"premium", "members", "only">>, <<"paid", "subscription">>,
   <<"consent", "or", "pay">>, <<"accept", "or", "subscribe">>,
   <<"accept", "or", "register">>}

detectConsentOrPay ==
  \/ HasPhrase(host.body, payKeywords)
  \/ /\ HasWord(host.body, {"subscribe", "register", "premium"})
     /\ HasWord(host.body, {"continue"})

loc0 ==
  [i |-> 0, tgt |-> 0, modal |-> "none", modal2 |-> "none", ret |-> "none",
   nav |-> "none", hit |-> FALSE, tcfSuccess |-> FALSE, cnt |-> 0, sorted |-> <<>>, tabs |-> <<>>,
   kind |-> "none", overlap |-> FALSE, teaching |-> FALSE, secs |-> <<>>, j |-> 0]

autoOff ==
  [pc |-> "off", enabled |-> FALSE, observer |-> FALSE, hasRun |-> FALSE, attempt |-> 0,
   timer |-> FALSE, run |-> 0, testMode |-> FALSE, unloaded |-> FALSE]

\* Teaching mode before it is entered; loaded: learnedPatterns is no longer null.
teach0 ==
  [handler |-> FALSE, loaded |-> FALSE, clicks |-> 0, captures |-> 0, saved |-> 0,
   delivered |-> 0, saving |-> 0, timers |-> 0, target |-> 0]

lib0 == [op |-> "none"]

\* A run's step waits for the other runs to reach an await: the script is
\* single-threaded.
AwaitLabels ==
  {"idle", "done", "w_load", "w_p0", "w_p0save", "w_uni1", "w_uni2", "w_uni3", "w_unipost",
   "w_deny1", "w_deny3", "w_deny3b", "w_denysave", "w_ot", "w_uc", "w_qc", "w_tcf1",
   "w_tcf2", "w_mg1", "w_mg2", "w_mg3", "w_nav1", "w_nav2", "w_nav3", "w_sec1", "w_sec2",
   "w_p4", "w_p6"}

at(r, label) == pc[r] = label /\ \A q \in Runs \ {r} : pc[q] \in AwaitLabels

goto(r, label) == pc' = [pc EXCEPT ![r] = label]

\* Date.now() - operationStartTime < MAX_TOTAL_RUNTIME, and > MAX_TOTAL_RUNTIME.
within == elapsed = "lt"

expired == elapsed = "gt"

\* runDeny's first statements, up to the wait for the store.
RunStart(r) ==
  /\ at(r, "start")
  /\ R' = freshResults
  /\ elapsed' = "lt"
  /\ goto(r, "w_load")
  /\ UNCHANGED <<page, vis, checked, store, learnedPatterns, loc, result, hist,
                 modes, auto>>

\* The store answered: CMP detection and the pay-wall check.
RunLoaded(r) ==
  /\ at(r, "w_load")
  /\ learnedPatterns' = loadLearnedPatterns
  /\ LET R1 == [R EXCEPT !.cmpDetected = detectCMPs, !.bannerFound = @ \/ detectCMPs # "null"]
         R2 == [R1 EXCEPT !.consentOrPay = TRUE,
                          !.errors = Append(@, ErrEntry("Consent or Pay Wall", <<>>, r))]
     IN IF detectConsentOrPay
        THEN /\ R' = R2
             /\ result' = [result EXCEPT ![r] = R2]
             /\ goto(r, "done")
             /\ hist' = hist
        ELSE /\ R' = R1
             /\ result' = result
             /\ goto(r, "p0")
             /\ hist' = hist \cup {Ev("begin", 0, "learned", r)}
  /\ loc' = [loc EXCEPT ![r].sorted = sortDesc(loadLearnedPatterns)]
  /\ teach' = [teach EXCEPT !.loaded = TRUE]
  /\ UNCHANGED <<page, vis, checked, store, elapsed, teachingMode, lib, auto>>

\* tryLearnedPatterns: the next pattern whose element is there is clicked.
LearnedClick(r) ==
  /\ at(r, "p0")
  /\ LET k == nextPattern(loc[r].sorted, loc[r].i + 1)
         b == patternButton(loc[r].sorted[k])
     IN IF k = 0
        THEN /\ goto(r, "p05")
             /\ loc' = [loc EXCEPT ![r].i = 0, ![r].tgt = 0, ![r].sorted = <<>>]
             /\ vis' = vis
             /\ hist' = hist \cup {Ev("begin", 0, "universal", r)}
        ELSE /\ goto(r, "w_p0")
             /\ loc' = [loc EXCEPT ![r].i = k, ![r].tgt = b]
             /\ vis' \in Reactions(vis)
             /\ hist' = hist \cup {Ev("click", b, "learned", r)}
  /\ UNCHANGED <<page, checked, store, learnedPatterns, R, elapsed, result,
                 modes, auto>>

\* Half a second later: the outcome is recorded, a success is saved.
LearnedCheck(r) ==
  /\ at(r, "w_p0")
  /\ LET p == loc[r].sorted[loc[r].i]
         bannerGone == ~isBannerVisible
     IN /\ R' = [R EXCEPT !.bannerFound = TRUE, !.bannerClosed = bannerGone,
                          !.cmpMethod = "learned-pattern",
                          !.unchecked = Append(@, Entry("Clicked learned button: ", p.text,
                                                        "Learned Pattern", "deny-all", r))]
        /\ IF bannerGone
           THEN /\ learnedPatterns' = saveLearnedPattern(learnedPatterns, p.text, p.selector)
                /\ store' = learnedPatterns'
                /\ goto(r, "w_p0save")
           ELSE /\ UNCHANGED <<learnedPatterns, store>>
                /\ goto(r, "p0")
  /\ UNCHANGED <<page, vis, checked, elapsed, loc, result, hist, modes, auto>>

\* The store took the pattern: Phase 0 succeeded and runDeny returns.
LearnedSaved(r) ==
  /\ at(r, "w_p0save")
  /\ result' = [result EXCEPT ![r] = R]
  /\ hist' = hist \cup {Ev("success", 0, "learned", r)}
  /\ goto(r, "done")
  /\ UNCHANGED <<page, vis, checked, store, learnedPatterns, R, elapsed, loc, modes,
                 auto>>

\* Time passes while a run waits.
Tick ==
  /\ \E r \in Runs : pc[r] \in AwaitLabels \ {"idle", "done"}
  /\ elapsed # "gt"
  /\ elapsed' = IF elapsed = "lt" THEN "eq" ELSE "gt"
  /\ UNCHANGED <<page, vis, checked, store, learnedPatterns, R, pc, loc, result, hist,
                 modes, auto>>

\* ------------------------------------------------------ handleUniversalModal
\* The button handleUniversalModal picks in a modal: reject, else manage, else
\* unknown; 0 when the modal has none of them.
targetButton(modal) ==
  LET ofType(ty) == First({i \in ButtonsIn(modal) : classifyButton(btn[i].text, btn[i].attrs) = ty})
  IN IF ofType("reject") # 0 THEN ofType("reject")
     ELSE IF ofType("manage") # 0 THEN ofType("manage")
     ELSE ofType("unknown")

\* The first modal of a list that is a privacy modal and offers a button of the
\* types picked from; "none" when there is none.
RECURSIVE firstModal(_, _, _)
firstModal(modals, withRef, onlyReject) ==
  IF modals = <<>> THEN "none"
  ELSE LET m == Head(modals)
           b == targetButton(m)
           ok == /\ isPrivacyModal(m, withRef)
                 /\ b # 0
                 /\ onlyReject => classifyButton(btn[b].text, btn[b].attrs) = "reject"
       IN IF ok THEN m ELSE firstModal(Tail(modals), withRef, onlyReject)

\* handleUniversalModal returned into runDeny: success only with the banner closed.
UniversalReturns(r, worked, closed) ==
  IF worked /\ closed
  THEN /\ goto(r, "w_unipost")
       /\ hist' = hist \cup {Ev("success", 0, "universal", r)}
  ELSE /\ goto(r, "deny")
       /\ hist' = hist \cup {Ev("begin", 0, "deny", r)}

UniversalClick(r) ==
  /\ at(r, "p05")
  /\ LET m == firstModal(findAllModals, FALSE, FALSE)
         b == targetButton(m)
     IN IF m = "none"
        THEN /\ UniversalReturns(r, FALSE, FALSE)
             /\ loc' = [loc EXCEPT ![r].ret = "p1"]
             /\ vis' = vis
        ELSE /\ goto(r, "w_uni1")
             /\ loc' = [loc EXCEPT ![r].tgt = b, ![r].modal = m]
             /\ vis' \in Reactions(vis)
             /\ hist' = hist \cup {Ev("click", b, "universal", r)}
  /\ UNCHANGED <<page, checked, store, learnedPatterns, R, elapsed, result,
                 modes, auto>>

UniEntry(tmpl, b, r) ==
  Entry(tmpl, btn[b].text, "Universal Detection", classifyButton(btn[b].text, btn[b].attrs), r)

\* 800 ms after the click.
UniversalCheck(r) ==
  /\ at(r, "w_uni1")
  /\ LET b == loc[r].tgt
         modalGone == ~vis[loc[r].modal]
     IN IF classifyButton(btn[b].text, btn[b].attrs) = "manage"
        THEN /\ R' = [R EXCEPT !.bannerFound = TRUE,
                               !.unchecked = Append(@, UniEntry("Universal: Clicked (Step 1)", b, r))]
             /\ goto(r, "w_uni2")
             /\ hist' = hist
             /\ loc' = loc
        ELSE /\ R' = [R EXCEPT !.bannerFound = TRUE, !.bannerClosed = modalGone,
                               !.cmpDetected = IF @ = "null" THEN "Universal/Generic" ELSE @,
                               !.cmpMethod = "universal-detection",
                               !.unchecked = Append(@, UniEntry("Universal: Clicked", b, r))]
             /\ UniversalReturns(r, TRUE, modalGone)
             /\ loc' = [loc EXCEPT ![r].ret = "p1"]
  /\ UNCHANGED <<page, vis, checked, store, learnedPatterns, elapsed, result,
                 modes, auto>>

\* The mutant looks at every modal again, the processed one included.
UniversalStep2Again(r) ==
  /\ at(r, "w_uni2")
  /\ LET m == firstModal(findAllModals, TRUE, FALSE)
         b == targetButton(m)
     IN IF m = "none"
        THEN /\ UniversalReturns(r, FALSE, FALSE)
             /\ loc' = [loc EXCEPT ![r].ret = "p1"]
             /\ vis' = vis
        ELSE /\ goto(r, "w_uni3")
             /\ loc' = [loc EXCEPT ![r].tgt = b, ![r].modal2 = m]
             /\ vis' \in Reactions(vis)
             /\ hist' = hist \cup {Ev("click", b, "universal", r)}
  /\ UNCHANGED <<page, checked, store, learnedPatterns, R, elapsed, result,
                 modes, auto>>

\* 1800 ms after a manage click: a new privacy modal with a reject button.
UniversalStep2(r) ==
  /\ at(r, "w_uni2")
  /\ LET others == SelectSeq(findAllModals, LAMBDA m : m # loc[r].modal)
         m == firstModal(others, TRUE, TRUE)
         b == targetButton(m)
     IN IF m = "none"
        THEN /\ UniversalReturns(r, FALSE, FALSE)
             /\ loc' = [loc EXCEPT ![r].ret = "p1"]
             /\ vis' = vis
        ELSE /\ goto(r, "w_uni3")
             /\ loc' = [loc EXCEPT ![r].tgt = b, ![r].modal2 = m]
             /\ vis' \in Reactions(vis)
             /\ hist' = hist \cup {Ev("click", b, "universal", r)}
  /\ UNCHANGED <<page, checked, store, learnedPatterns, R, elapsed, result,
                 modes, auto>>

UniversalCheck2(r) ==
  /\ at(r, "w_uni3")
  /\ LET bothGone == ~vis[loc[r].modal] /\ ~vis[loc[r].modal2]
     IN /\ R' = [R EXCEPT !.bannerClosed = bothGone,
                          !.cmpDetected = IF @ = "null" THEN "Universal/Generic" ELSE @,
                          !.cmpMethod = "universal-detection-multistep",
                          !.unchecked = Append(@, Entry("Universal: Clicked (Step 2)",
                                                        btn[loc[r].tgt].text,
                                                        "Universal Detection", "reject", r))]
        /\ UniversalReturns(r, TRUE, bothGone)
  /\ loc' = [loc EXCEPT ![r].ret = "p1"]
  /\ UNCHANGED <<page, vis, checked, store, learnedPatterns, elapsed, result,
                 modes, auto>>

\* Half a second after Phase 0.5 closed the banner: the toggles of the panels
\* that are still there, a confirm click if any was unchecked, and runDeny returns.
UniversalPost(r) ==
  /\ at(r, "w_unipost")
  /\ LET panels == IF host.privacyKw THEN {m \in Document : vis[m]} ELSE {}
         S == scrapeToggles(Bundle, panels, "universal", r)
         b == IF ~S.threw /\ Unchecked(Bundle, S) > 0 THEN tryConfirm ELSE 0
     IN /\ R' = S.R
        /\ checked' = S.checked
        /\ hist' = S.hist \cup (IF b = 0 THEN {} ELSE {Ev("confirm", b, "universal", r)})
        /\ IF b = 0 THEN vis' = vis ELSE vis' \in Reactions(vis)
        /\ result' = [result EXCEPT ![r] = S.R]
  /\ goto(r, "done")
  /\ UNCHANGED <<page, store, learnedPatterns, elapsed, loc, modes, auto>>

\* -------------------------------------------------------------- tryDenyButton
\* The pages modelled keep their buttons inside containers that BANNER_SEL matches,
\* so that the first pass takes every button the second would take, and they have
\* no Usercentrics container for the fourth.
denyInBanner ==
  First({i \in VisibleButtons : DENY_PATTERNS(btn[i].text) \/ DENY_PATTERNS(btn[i].attrs)})

\* tryDenyButton returned: to runDeny (Phase 1) or to tryManagePanel.
DenyReturns(r, found) ==
  IF loc[r].ret = "p1"
  THEN IF found
       THEN /\ goto(r, "w_p6")
            /\ hist' = hist \cup {Ev("success", 0, "deny", r)}
       ELSE IF within
       THEN /\ goto(r, "api")
            /\ hist' = hist \cup {Ev("begin", 0, "api", r)}
       ELSE /\ goto(r, "w_p6")
            /\ hist' = hist
  ELSE /\ goto(r, IF found THEN "p4" ELSE "nav")
       /\ hist' = hist

DenyClick(r) ==
  /\ at(r, "deny")
  /\ LET b1 == denyInBanner
         b3 == bySelectors(knownDenySelectors)
     IN IF b1 # 0
        THEN /\ goto(r, "w_deny1")
             /\ loc' = [loc EXCEPT ![r].tgt = b1]
             /\ vis' \in Reactions(vis)
             /\ hist' = hist \cup {Ev("click", b1, IF loc[r].ret = "p1" THEN "deny" ELSE "manage", r)}
        ELSE IF b3 # 0
        THEN /\ goto(r, "w_deny3")
             /\ loc' = [loc EXCEPT ![r].tgt = b3]
             /\ vis' \in Reactions(vis)
             /\ hist' = hist \cup {Ev("click", b3, IF loc[r].ret = "p1" THEN "deny" ELSE "manage", r)}
        ELSE /\ DenyReturns(r, FALSE)
             /\ loc' = [loc EXCEPT ![r].nav = "manage"]
             /\ vis' = vis
  /\ UNCHANGED <<page, checked, store, learnedPatterns, R, elapsed, result,
                 modes, auto>>

DenyRecord(b, tmpl, bannerGone, r) ==
  [R EXCEPT !.bannerFound = TRUE, !.bannerClosed = bannerGone, !.cmpMethod = "button-click",
            !.unchecked = Append(@, Entry(tmpl, btn[b].text, "Banner Action", "deny-all", r))]

\* First pass, 500 ms after the click: recorded, and learned when Phase 1 asked.
DenyCheck1(r) ==
  /\ at(r, "w_deny1")
  /\ LET b == loc[r].tgt
         bannerGone == ~isBannerVisible
     IN /\ R' = DenyRecord(b, "Clicked button", bannerGone, r)
        /\ IF bannerGone /\ loc[r].ret = "p1"
           THEN /\ learnedPatterns' = saveLearnedPattern(learnedPatterns, btn[b].text, b)
                /\ store' = learnedPatterns'
                /\ goto(r, "w_denysave")
                /\ hist' = hist
           ELSE /\ UNCHANGED <<learnedPatterns, store>>
                /\ DenyReturns(r, TRUE)
  /\ UNCHANGED <<page, vis, checked, elapsed, loc, result, modes, auto>>

DenySaved(r) ==
  /\ at(r, "w_denysave")
  /\ DenyReturns(r, TRUE)
  /\ UNCHANGED <<page, vis, checked, store, learnedPatterns, R, elapsed, loc, result,
                 modes, auto>>

\* Third pass, a second after the click: a banner still there is given 500 ms more.
DenyCheck3(r) ==
  /\ at(r, "w_deny3")
  /\ IF isBannerVisible
     THEN /\ goto(r, "w_deny3b")
          /\ UNCHANGED <<R, hist>>
     ELSE /\ R' = DenyRecord(loc[r].tgt, "Clicked deny button: ", TRUE, r)
          /\ DenyReturns(r, TRUE)
  /\ UNCHANGED <<page, vis, checked, store, learnedPatterns, elapsed, loc, result,
                 modes, auto>>

DenyRetry3(r) ==
  /\ at(r, "w_deny3b")
  /\ R' = DenyRecord(loc[r].tgt, "Clicked deny button: ", ~isBannerVisible, r)
  /\ DenyReturns(r, TRUE)
  /\ UNCHANGED <<page, vis, checked, store, learnedPatterns, elapsed, loc, result,
                 modes, auto>>

\* ---------------------------------------------------------------- tryCMPApis
\* The vendors modelled: OneTrust (with RejectAll and its banner element), Didomi,
\* Osano, Quantcast (without its UI element) and a bare TCF API.
ApiEntry(tmpl, category, r) == Entry(tmpl, <<>>, category, "deny-all", r)

orElse(method, m) == IF method = "null" THEN m ELSE method

\* OneTrust: its reject button by selector, else RejectAll().
ApiOneTrust(r) ==
  /\ at(r, "api")
  /\ LET b == querySelector(oneTrustSelectors)
     IN IF b \in VisibleButtons
        THEN /\ goto(r, "w_ot")
             /\ loc' = [loc EXCEPT ![r].tgt = b, ![r].hit = FALSE, ![r].tcfSuccess = FALSE]
             /\ vis' \in Reactions(vis)
             /\ hist' = hist \cup {Ev("click", b, "api", r)}
        ELSE IF host.api = "OneTrust"
        THEN /\ goto(r, "w_ot")
             /\ loc' = [loc EXCEPT ![r].tgt = 0, ![r].hit = FALSE, ![r].tcfSuccess = FALSE]
             /\ vis' \in Reactions(vis)
             /\ hist' = hist \cup {Ev("api", 0, "api", r)}
        ELSE /\ goto(r, "api_uc")
             /\ loc' = [loc EXCEPT ![r].hit = FALSE, ![r].tcfSuccess = FALSE]
             /\ UNCHANGED <<vis, hist>>
  /\ UNCHANGED <<page, checked, store, learnedPatterns, R, elapsed, result,
                 modes, auto>>

\* Half a second later the banner is taken for closed, and OneTrust's is hidden.
ApiOneTrustDone(r) ==
  /\ at(r, "w_ot")
  /\ R' = [R EXCEPT !.cmpMethod = orElse(@, IF loc[r].tgt # 0 THEN "button-click" ELSE "api"),
                    !.bannerFound = TRUE, !.bannerClosed = TRUE,
                    !.unchecked = Append(@, ApiEntry(IF loc[r].tgt # 0
                                                     THEN "OneTrust: Reject button clicked"
                                                     ELSE "OneTrust: RejectAll()", "CMP API", r))]
  /\ loc' = [loc EXCEPT ![r].hit = TRUE]
  /\ IF host.api = "OneTrust"
     THEN /\ vis' = [vis EXCEPT !.banner = FALSE]
          /\ hist' = hist \cup {Ev("api", 0, "api", r)} \cup
                     (IF vis.banner THEN {Ev("hide", 0, "api", r)} ELSE {})
     ELSE UNCHANGED <<vis, hist>>
  /\ goto(r, "api_uc")
  /\ UNCHANGED <<page, checked, store, learnedPatterns, elapsed, result, modes, auto>>

\* Didomi's API, then the Usercentrics deny selectors.
ApiDidomiUC(r) ==
  /\ at(r, "api_uc")
  /\ LET didomi == host.api = "Didomi"
         b == bySelectors(ucDenySelectors)
         called == IF didomi THEN {Ev("api", 0, "api", r)} ELSE {}
     IN /\ R' = IF didomi
                THEN [R EXCEPT !.cmpMethod = orElse(@, "api"),
                               !.unchecked = Append(@, ApiEntry("Didomi: setUserDisagreeToAll()",
                                                                "CMP API", r))]
                ELSE R
        /\ IF b # 0
           THEN /\ goto(r, "w_uc")
                /\ loc' = [loc EXCEPT ![r].tgt = b, ![r].hit = @ \/ didomi]
                /\ vis' \in Reactions(vis)
                /\ hist' = hist \cup called \cup {Ev("click", b, "api", r)}
           ELSE /\ goto(r, "api_qc")
                /\ loc' = [loc EXCEPT ![r].hit = @ \/ didomi]
                /\ vis' = vis
                /\ hist' = hist \cup called
  /\ UNCHANGED <<page, checked, store, learnedPatterns, elapsed, result, modes, auto>>

ApiUCDone(r) ==
  /\ at(r, "w_uc")
  /\ R' = [R EXCEPT !.cmpMethod = orElse(@, "button-click"),
                    !.unchecked = Append(@, Entry("Usercentrics: Clicked", btn[loc[r].tgt].text,
                                                  "CMP Button", "deny-all", r))]
  /\ loc' = [loc EXCEPT ![r].hit = TRUE]
  /\ goto(r, "api_qc")
  /\ UNCHANGED <<page, vis, checked, store, learnedPatterns, elapsed, result, hist,
                 modes, auto>>

\* tryCMPApis returned into runDeny, which goes on to tryManagePanel whatever it
\* returned.
ApiReturns(r, hit, called) ==
  /\ goto(r, "manage")
  /\ hist' = hist \cup called \cup (IF hit THEN {Ev("success", 0, "api", r)} ELSE {})

\* Osano, Quantcast, and the first call into the TCF API.
ApiOsanoQuantcastTcf(r) ==
  /\ at(r, "api_qc")
  /\ loc' = [loc EXCEPT ![r].hit = @ \/ host.api = "Osano"]
  /\ CASE host.api = "Osano" -> ApiReturns(r, TRUE, {Ev("api", 0, "api", r)})
       [] host.api = "Quantcast" ->
            goto(r, "w_qc") /\ hist' = hist \cup {Ev("api", 0, "api", r)}
       [] host.api = "TCF" ->
            goto(r, "w_tcf1") /\ hist' = hist \cup {Ev("api", 0, "api", r)}
       [] OTHER -> ApiReturns(r, loc[r].hit, {})
  /\ UNCHANGED <<page, vis, checked, store, learnedPatterns, R, elapsed, result,
                 modes, auto>>

ApiQuantcastDone(r) ==
  /\ at(r, "w_qc")
  /\ R' = [R EXCEPT !.cmpMethod = orElse(@, "api"),
                    !.unchecked = Append(@, ApiEntry("Quantcast: setConsentedToAll(false)",
                                                     "CMP API", r))]
  /\ loc' = [loc EXCEPT ![r].hit = TRUE]
  /\ ApiReturns(r, TRUE, {})
  /\ UNCHANGED <<page, vis, checked, store, learnedPatterns, elapsed, result,
                 modes, auto>>

\* The host page answers rejectAll through the callback ...
TcfRejectAnswer(r, success) ==
  /\ at(r, "w_tcf1")
  /\ R' = IF success
          THEN [R EXCEPT !.unchecked = Append(@, ApiEntry("TCF: rejectAll()", "CMP API", r))]
          ELSE R
  /\ loc' = [loc EXCEPT ![r].tcfSuccess = success, ![r].hit = @ \/ success]
  /\ hist' = hist \cup {Ev("api", 1, "api", r)}
  /\ goto(r, "w_tcf2")
  /\ UNCHANGED <<page, vis, checked, store, learnedPatterns, elapsed, result,
                 modes, auto>>

\* ... or the one-second timer resolves the wait. Either way getTCData is called.
TcfTimeout(r) ==
  /\ at(r, "w_tcf1")
  /\ hist' = hist \cup {Ev("api", 1, "api", r)}
  /\ goto(r, "w_tcf2")
  /\ UNCHANGED <<page, vis, checked, store, learnedPatterns, R, elapsed, loc, result,
                 modes, auto>>

\* The host page answers getTCData, with purpose 1 consented or without data.
\* Nothing else ends this wait.
TcfData(r, success) ==
  /\ at(r, "w_tcf2")
  /\ R' = IF success
          THEN [R EXCEPT !.cmpMethod = orElse(@, "api"),
                         !.unchecked = IF loc[r].tcfSuccess THEN @
                                       ELSE Append(@, Entry("TCF purpose 1", <<>>, "TCF Purpose",
                                                            "consent", r))]
          ELSE R
  /\ loc' = [loc EXCEPT ![r].hit = TRUE]
  /\ ApiReturns(r, TRUE, {})
  /\ UNCHANGED <<page, vis, checked, store, learnedPatterns, elapsed, result,
                 modes, auto>>

\* ------------------------------------------------------------ tryManagePanel
\* runDeny's last statements: the lists are deduplicated, processedLabels is
\* deleted, DSC_SCAN_COMPLETE is sent and R is returned.
finalize(Rx) ==
  [Rx EXCEPT !.unchecked = dedupe(@), !.mandatory = dedupe(@), !.errors = dedupe(@),
             !.processedLabels = {}, !.hasProcessedLabels = FALSE]

RunReturns(r, Rx, H) ==
  /\ R' = finalize(Rx)
  /\ result' = [result EXCEPT ![r] = finalize(Rx)]
  /\ hist' = H \cup {Ev("message", 0, "hide", r)}
  /\ goto(r, "done")

\* A throw that reaches runDeny's catch.
Caught(Rx, r) == [Rx EXCEPT !.errors = Append(@, ErrEntry("Operation error", <<>>, r))]

manageButton == First({i \in VisibleButtons : MANAGE_PANEL_PATTERNS(btn[i].text)})

ManageOpen(r) ==
  /\ at(r, "manage")
  /\ IF expired \/ manageButton = 0
     THEN /\ goto(r, "p4")
          /\ vis' = vis
          /\ hist' = hist \cup (IF expired THEN {} ELSE {Ev("begin", 0, "manage", r)})
     ELSE /\ goto(r, "w_mg1")
          /\ vis' \in Reactions(vis)
          /\ hist' = hist \cup {Ev("begin", 0, "manage", r), Ev("click", manageButton, "manage", r)}
  /\ UNCHANGED <<page, checked, store, learnedPatterns, R, elapsed, loc, result,
                 modes, auto>>

\* MAX_WAIT_PER_SECTION later.
ManageOpened(r) ==
  /\ at(r, "w_mg1")
  /\ R' = [R EXCEPT !.sectionsProcessed = @ + 1]
  /\ goto(r, "w_mg2")
  /\ UNCHANGED <<page, vis, checked, store, learnedPatterns, elapsed, loc, result, hist,
                 modes, auto>>

\* Half a second more, and tryDenyButton is tried on what the click opened.
ManageSettled(r) ==
  /\ at(r, "w_mg2")
  /\ loc' = [loc EXCEPT ![r].ret = "mg"]
  /\ goto(r, "deny")
  /\ UNCHANGED <<page, vis, checked, store, learnedPatterns, R, elapsed, result, hist,
                 modes, auto>>

\* 300 ms after a sweep that unchecked something: tryConfirm.
ManageConfirm(r) ==
  /\ at(r, "w_mg3")
  /\ LET b == tryConfirm
     IN /\ R' = [R EXCEPT !.bannerFound = TRUE, !.cmpMethod = orElse(@, "multi-section-scrape"),
                          !.bannerClosed = @ \/ b # 0]
        /\ IF b = 0 THEN UNCHANGED <<vis, hist>>
           ELSE /\ vis' \in Reactions(vis)
                /\ hist' = hist \cup {Ev("confirm", b, "manage", r)}
  /\ goto(r, "p4")
  /\ UNCHANGED <<page, checked, store, learnedPatterns, elapsed, loc, result,
                 modes, auto>>

\* ----------------------------------------------- navigateAndScrapeAllSections
\* A tab's or a section's toggles and buttons are looked for in the whole document.
NavStart(r) ==
  /\ at(r, "nav")
  /\ loc' = [loc EXCEPT ![r].cnt = 0, ![r].i = 1,
                        ![r].tabs = IF expired THEN <<>>
                                    ELSE SelectSeq([k \in 1..Len(btn) |-> k],
                                                   LAMBDA k : /\ k \in VisibleButtons
                                                              /\ TAB_PATTERNS(btn[k].text)),
                        ![r].j = 1,
                        ![r].secs = IF expired THEN <<>>
                                    ELSE SelectSeq([k \in 1..Len(btn) |-> k],
                                                   LAMBDA k : /\ k \in VisibleButtons
                                                              /\ ~TAB_PATTERNS(btn[k].text)
                                                              /\ SECTION_PATTERNS(btn[k].text))]
  /\ goto(r, "nav_next")
  /\ UNCHANGED <<page, vis, checked, store, learnedPatterns, R, elapsed, result, hist,
                 modes, auto>>

\* The next tab is clicked, unless the deadline has passed; after the tabs come the
\* accordion sections.
NavNext(r) ==
  /\ at(r, "nav_next")
  /\ IF loc[r].i > Len(loc[r].tabs) \/ expired
     THEN /\ goto(r, IF expired \/ loc[r].secs = <<>> THEN "nav_ret" ELSE "sec_next")
          /\ UNCHANGED <<vis, hist>>
     ELSE /\ goto(r, "w_nav1")
          /\ vis' \in Reactions(vis)
          /\ hist' = hist \cup {Ev("click", loc[r].tabs[loc[r].i], loc[r].nav, r)}
  /\ UNCHANGED <<page, checked, store, learnedPatterns, R, elapsed, loc, result,
                 modes, auto>>

NavOpened(r) ==
  /\ at(r, "w_nav1")
  /\ R' = [R EXCEPT !.sectionsProcessed = @ + 1]
  /\ goto(r, "w_nav2")
  /\ UNCHANGED <<page, vis, checked, store, learnedPatterns, elapsed, loc, result, hist,
                 modes, auto>>

\* scrapeToggles inside the loop's try: a throw is recorded and the loop goes on.
NavScrape(S, r) ==
  LET T == scrapeToggles(S, Document, loc[r].nav, r)
  IN IF T.threw
     THEN [T EXCEPT !.threw = FALSE,
                    !.R.errors = Append(@, ErrEntry("Failed to process tab", <<>>, r))]
     ELSE T

\* tryDenyButtonInContext on the tab, else the tab's toggles.
NavDeny(r) ==
  /\ at(r, "w_nav2")
  /\ LET b == First({i \in VisibleButtons : DENY_PATTERNS(btn[i].text)})
         T == NavScrape(Bundle, r)
     IN IF b # 0
        THEN /\ goto(r, "w_nav3")
             /\ loc' = [loc EXCEPT ![r].tgt = b]
             /\ vis' \in Reactions(vis)
             /\ hist' = hist \cup {Ev("click", b, loc[r].nav, r)}
             /\ UNCHANGED <<R, checked>>
        ELSE /\ goto(r, "nav_next")
             /\ loc' = [loc EXCEPT ![r].i = @ + 1, ![r].cnt = @ + Unchecked(Bundle, T)]
             /\ R' = T.R
             /\ checked' = T.checked
             /\ hist' = T.hist
             /\ vis' = vis
  /\ UNCHANGED <<page, store, learnedPatterns, elapsed, result, modes, auto>>

NavDenyCheck(r) ==
  /\ at(r, "w_nav3")
  /\ LET R1 == [R EXCEPT !.bannerClosed = @ \/ ~isBannerVisible,
                         !.unchecked = Append(@, Entry("Clicked in section", btn[loc[r].tgt].text,
                                                       "Banner Action", "deny-all", r))]
         T == NavScrape([Bundle EXCEPT !.R = R1], r)
     IN IF R1.bannerClosed
        THEN /\ goto(r, "nav_ret")
             /\ loc' = [loc EXCEPT ![r].cnt = @ + 1]
             /\ R' = R1
             /\ UNCHANGED <<checked, hist>>
        ELSE /\ goto(r, "nav_next")
             /\ loc' = [loc EXCEPT ![r].i = @ + 1, ![r].cnt = @ + Unchecked(Bundle, T)]
             /\ R' = T.R
             /\ checked' = T.checked
             /\ hist' = T.hist
  /\ UNCHANGED <<page, vis, store, learnedPatterns, elapsed, result, modes, auto>>

\* The next accordion section is expanded, unless the deadline has passed.
SectionNext(r) ==
  /\ at(r, "sec_next")
  /\ IF loc[r].j > Len(loc[r].secs) \/ expired
     THEN /\ goto(r, "nav_ret")
          /\ UNCHANGED <<vis, hist>>
     ELSE /\ goto(r, "w_sec1")
          /\ vis' \in Reactions(vis)
          /\ hist' = hist \cup {Ev("click", loc[r].secs[loc[r].j], loc[r].nav, r)}
  /\ UNCHANGED <<page, checked, store, learnedPatterns, R, elapsed, loc, result,
                 modes, auto>>

\* 300 ms later the section's toggles are swept, then tryDenyButtonInContext looks
\* for a deny button in it; a throw of the sweep skips the rest of the section.
SectionOpened(r) ==
  /\ at(r, "w_sec1")
  /\ LET S == [Bundle EXCEPT !.R.sectionsProcessed = @ + 1]
         T == scrapeToggles(S, Document, loc[r].nav, r)
         b == First({i \in VisibleButtons : DENY_PATTERNS(btn[i].text)})
     IN IF T.threw
        THEN /\ R' = [T.R EXCEPT !.errors = Append(@, ErrEntry("Failed to expand", <<>>, r))]
             /\ checked' = T.checked
             /\ hist' = T.hist
             /\ vis' = vis
             /\ loc' = [loc EXCEPT ![r].j = @ + 1]
             /\ goto(r, "sec_next")
        ELSE /\ R' = T.R
             /\ checked' = T.checked
             /\ IF b # 0
                THEN /\ goto(r, "w_sec2")
                     /\ loc' = [loc EXCEPT ![r].tgt = b, ![r].cnt = @ + Unchecked(S, T)]
                     /\ vis' \in Reactions(vis)
                     /\ hist' = T.hist \cup {Ev("click", b, loc[r].nav, r)}
                ELSE /\ goto(r, "sec_next")
                     /\ loc' = [loc EXCEPT ![r].j = @ + 1, ![r].cnt = @ + Unchecked(S, T)]
                     /\ vis' = vis
                     /\ hist' = T.hist
  /\ UNCHANGED <<page, store, learnedPatterns, elapsed, result, modes, auto>>

\* tryDenyButtonInContext, 500 ms after its click in a section: the click is
\* recorded and the loop goes on to the next section.
SectionDenyCheck(r) ==
  /\ at(r, "w_sec2")
  /\ R' = [R EXCEPT !.bannerClosed = @ \/ ~isBannerVisible,
                    !.unchecked = Append(@, Entry("Clicked in section", btn[loc[r].tgt].text,
                                                  "Banner Action", "deny-all", r))]
  /\ loc' = [loc EXCEPT ![r].j = @ + 1]
  /\ goto(r, "sec_next")
  /\ UNCHANGED <<page, vis, checked, store, learnedPatterns, elapsed, result, hist,
                 modes, auto>>

\* navigateAndScrapeAllSections returned: into tryManagePanel, which sweeps the
\* toggles that are left ('Main Panel'), or into Phase 4 of runDeny.
NavReturn(r) ==
  /\ at(r, "nav_ret")
  /\ LET S == scrapeToggles(Bundle, Document, "manage", r)
     IN IF loc[r].nav = "manage"
        THEN /\ checked' = S.checked
             /\ IF S.threw
                THEN RunReturns(r, Caught(S.R, r), S.hist)
                ELSE /\ R' = S.R
                     /\ hist' = S.hist
                     /\ result' = result
                     /\ goto(r, IF loc[r].cnt + Unchecked(Bundle, S) > 0 THEN "w_mg3" ELSE "p4")
        ELSE /\ goto(r, IF Len(R.unchecked) > 0 THEN "w_p4" ELSE "p5")
             /\ UNCHANGED <<R, checked, hist, result>>
  /\ UNCHANGED <<page, vis, store, learnedPatterns, elapsed, loc, modes, auto>>

\* ------------------------------------------------------- runDeny, Phases 4 to 6
\* Phase 4: the raw toggle sweep, when nothing is recorded as denied yet.
Sweep(r) ==
  /\ at(r, "p4")
  /\ LET S == scrapeToggles([Bundle EXCEPT !.hist = @ \cup {Ev("begin", 0, "sweep", r)}],
                            Document, "sweep", r)
     IN IF Len(R.unchecked) = 0 /\ within
        THEN /\ checked' = S.checked
             /\ IF S.threw
                THEN /\ RunReturns(r, Caught(S.R, r), S.hist)
                     /\ loc' = loc
                ELSE /\ R' = S.R
                     /\ hist' = S.hist
                     /\ result' = result
                     /\ loc' = [loc EXCEPT ![r].nav = "sweep"]
                     /\ goto(r, IF Len(S.R.unchecked) > 0 THEN "nav" ELSE "p5")
        ELSE /\ goto(r, "p5")
             /\ UNCHANGED <<R, checked, hist, result, loc>>
  /\ UNCHANGED <<page, vis, store, learnedPatterns, elapsed, modes, auto>>

SweepConfirm(r) ==
  /\ at(r, "w_p4")
  /\ LET b == tryConfirm
     IN /\ R' = [R EXCEPT !.bannerFound = TRUE, !.cmpMethod = orElse(@, "toggle-scrape"),
                          !.bannerClosed = @ \/ b # 0]
        /\ IF b = 0 THEN UNCHANGED <<vis, hist>>
           ELSE /\ vis' \in Reactions(vis)
                /\ hist' = hist \cup {Ev("confirm", b, "sweep", r)}
  /\ goto(r, "p5")
  /\ UNCHANGED <<page, checked, store, learnedPatterns, elapsed, loc, result,
                 modes, auto>>

\* Phase 5, scanIframes: the toggles of the same-origin iframes. The iframes
\* modelled hold no buttons; a throw inside an iframe is swallowed.
Iframes(r) ==
  /\ at(r, "p5")
  /\ LET has == \E i \in DOMAIN tog : tog[i].place = "iframe"
         S == scrapeToggles([Bundle EXCEPT !.R.iframesScanned = @ + 1,
                                           !.hist = @ \cup {Ev("begin", 0, "iframe", r)}],
                            {"iframe"}, "iframe", r)
     IN IF within /\ has
        THEN /\ R' = S.R
             /\ checked' = S.checked
             /\ hist' = S.hist
        ELSE /\ hist' = hist \cup (IF within THEN {Ev("begin", 0, "iframe", r)} ELSE {})
             /\ UNCHANGED <<R, checked>>
  /\ goto(r, "w_p6")
  /\ UNCHANGED <<page, vis, store, learnedPatterns, elapsed, loc, result, modes, auto>>

\* Phase 6, half a second later: a banner not taken for closed is hidden; then the
\* run wraps up.
HideAndFinish(r) ==
  /\ at(r, "w_p6")
  /\ LET el == tryHideBanner
         acts == ~R.bannerClosed /\ within
         R1 == [R EXCEPT !.bannerFound = TRUE, !.bannerClosed = TRUE,
                         !.cmpMethod = orElse(@, "banner-hide"),
                         !.unchecked = Append(@, Entry("Privacy dialog hidden (CSS)", <<>>,
                                                       "Banner Action", "hide", r))]
     IN IF acts /\ el # "none"
        THEN /\ vis' = [vis EXCEPT ![el] = FALSE]
             /\ RunReturns(r, R1, hist \cup {Ev("begin", 0, "hide", r), Ev("hide", 0, "hide", r)})
        ELSE /\ vis' = vis
             /\ RunReturns(r, R, hist \cup (IF acts THEN {Ev("begin", 0, "hide", r)} ELSE {}))
  /\ UNCHANGED <<page, checked, store, learnedPatterns, elapsed, loc, modes, auto>>

\* ------------------------------------------------- invocations and auto mode
\* runDeny is called: by the RUN_CLEAN handler ("manual"), by the window message
\* DSC_CLEAN ("page"), or by auto mode ("auto"). The call asks neither whether a run is
\* under way nor whether teaching mode is on. Invocations are numbered in the
\* order of their calls.
Active(r) == pc[r] \notin {"idle", "done"}

Quiet == \A q \in Runs : pc[q] \in AwaitLabels

Invoke(r, kind) ==
  /\ Quiet
  /\ pc[r] = "idle"
  /\ \A q \in 1..(r - 1) : pc[q] # "idle"
  /\ goto(r, "start")
  /\ loc' = [loc EXCEPT ![r].kind = kind,
                        ![r].overlap = \E q \in Runs : Active(q),
                        ![r].teaching = teachingMode]

RunClean(r) ==
  /\ Invoke(r, "manual")
  /\ UNCHANGED <<page, vis, checked, store, learnedPatterns, R, elapsed, result, hist,
                 modes, auto>>

AUTO_ATTEMPTS == 5

cookieButtons ==
  {i \in VisibleButtons :
     /\ HasWord(btn[i].text, {"cookie", "cookies", "consent"})
     /\ HasWord(btn[i].text, {"reject", "accept", "agree", "decline", "allow", "deny"})}

\* checkAutoMode's detection: a CMP, else (after the last attempt) a privacy modal
\* or a cookie button; "watch" when the observer is to be installed.
autoDetect(attempt) ==
  IF detectCMPs # "null" THEN "w_cmp"
  ELSE IF attempt < AUTO_ATTEMPTS - 1 THEN "w_retry"
  ELSE IF \E k \in DOMAIN findAllModals : isPrivacyModal(findAllModals[k], FALSE) THEN "w_cmp"
  ELSE IF cookieButtons # {} THEN "w_cmp"
  ELSE "watch"

AutoDetectStep(attempt) ==
  auto' = [auto EXCEPT !.pc = autoDetect(attempt),
                       !.attempt = IF autoDetect(attempt) = "w_retry" THEN attempt + 1 ELSE 0,
                       !.observer = autoDetect(attempt) = "watch",
                       !.timer = @ \/ autoDetect(attempt) = "watch",
                       !.hasRun = FALSE]

\* The store answered with the autoMode flag; testMode is the session storage's
\* denystealth_test_mode item, which the page can set.
AutoFlag ==
  /\ Quiet
  /\ auto.pc = "w_flag"
  /\ IF auto.enabled \/ auto.testMode
     THEN AutoDetectStep(0)
     ELSE auto' = [auto EXCEPT !.pc = "off"]
  /\ UNCHANGED <<page, vis, checked, store, learnedPatterns, R, elapsed, pc, loc, result,
                 hist, modes>>

AutoRetry ==
  /\ Quiet
  /\ auto.pc = "w_retry"
  /\ AutoDetectStep(auto.attempt)
  /\ UNCHANGED <<page, vis, checked, store, learnedPatterns, R, elapsed, pc, loc, result,
                 hist, modes>>

\* The wait after a detection is over: runDeny is called.
AutoRun(r) ==
  /\ auto.pc \in {"w_cmp", "w_obs"}
  /\ Invoke(r, "auto")
  /\ auto' = [auto EXCEPT !.pc = "running", !.run = r]
  /\ UNCHANGED <<page, vis, checked, store, learnedPatterns, R, elapsed, result, hist,
                 modes>>

\* Its run returned: showAutoModeNotification.
AutoNotified ==
  /\ Quiet
  /\ auto.pc = "running"
  /\ pc[auto.run] = "done"
  /\ auto' = [auto EXCEPT !.pc = "off", !.run = 0]
  /\ UNCHANGED <<page, vis, checked, store, learnedPatterns, R, elapsed, pc, loc, result,
                 hist, modes>>

\* The host page adds a CMP-like node and the observer's callback runs.
Mutation ==
  /\ Quiet
  /\ auto.observer
  /\ ~(auto.hasRun \/ teachingMode)
  /\ auto' = [auto EXCEPT !.pc = "w_obs", !.hasRun = TRUE, !.observer = FALSE]
  /\ UNCHANGED <<page, vis, checked, store, learnedPatterns, R, elapsed, pc, loc, result,
                 hist, modes>>

\* The mutant's timer leaves the observer connected.
ObserverTimeoutIdle ==
  /\ Quiet
  /\ auto.timer
  /\ auto' = [auto EXCEPT !.timer = FALSE]
  /\ UNCHANGED <<page, vis, checked, store, learnedPatterns, R, elapsed, pc, loc, result,
                 hist, modes>>

\* 20 s after the observer was installed.
ObserverTimeout ==
  /\ Quiet
  /\ auto.timer
  /\ auto' = [auto EXCEPT !.timer = FALSE,
                          !.observer = IF auto.hasRun THEN @ ELSE FALSE,
                          !.pc = IF @ = "watch" /\ ~auto.hasRun THEN "off" ELSE @]
  /\ UNCHANGED <<page, vis, checked, store, learnedPatterns, R, elapsed, pc, loc, result,
                 hist, modes>>

\* The beforeunload listener: the page is being left while the observer is connected.
BeforeUnload ==
  /\ Quiet
  /\ auto.observer
  /\ auto' = [auto EXCEPT !.observer = FALSE, !.unloaded = TRUE]
  /\ UNCHANGED <<page, vis, checked, store, learnedPatterns, R, elapsed, pc, loc, result,
                 hist, modes>>

EnterTeaching ==
  /\ Quiet
  /\ ~teachingMode
  /\ teachingMode' = TRUE
  /\ auto' = [auto EXCEPT !.observer = FALSE, !.pc = IF @ = "watch" THEN "off" ELSE @]
  /\ teach' = [teach EXCEPT !.handler = TRUE]
  /\ UNCHANGED <<page, vis, checked, store, learnedPatterns, R, elapsed, pc, loc, result,
                 hist, lib>>

\* ------------------------------------------------------------ teaching mode
\* Bound: click events the teaching handler takes before the model stops counting.
MaxCaptures == 3

\* The dispatched event and the el.click() of clickElement: two click events.
CLICK_EVENTS == 2

\* teachingClickHandler takes a click event on button i (capture phase, on the
\* document): the event goes no further, and saveLearnedPattern runs up to its wait
\* for the store. With learnedPatterns still null it throws and catches.
capture(t, ps, i) ==
  [t |-> [t EXCEPT !.captures = @ + 1, !.saving = @ + 1, !.target = i,
                   !.saved = IF t.loaded THEN @ + 1 ELSE @],
   ps |-> IF t.loaded THEN saveLearnedPattern(ps, btn[i].text, i) ELSE ps]

\* The user clicks a button of the page while the handler is installed.
UserClick ==
  /\ Quiet
  /\ teach.handler
  /\ teach.clicks = 0
  /\ \E i \in VisibleButtons :
       LET c == capture([teach EXCEPT !.clicks = 1], learnedPatterns, i)
       IN /\ teach' = c.t
          /\ learnedPatterns' = c.ps
          /\ store' = IF teach.loaded THEN c.ps ELSE store
  /\ UNCHANGED <<page, vis, checked, R, elapsed, pc, loc, result, hist, teachingMode,
                 auto, lib>>

\* saveLearnedPattern returned to a suspended handler: TEACHING_COMPLETE is sent,
\* clickElement clicks the taught button and the exit is scheduled. The click
\* events reach the button only when the handler is no longer installed.
TeachSaved ==
  /\ Quiet
  /\ teach.saving > 0
  /\ LET t0 == [teach EXCEPT !.saving = @ - 1, !.timers = @ + 1]
         c1 == capture(t0, learnedPatterns, teach.target)
         c2 == capture(c1.t, c1.ps, teach.target)
     IN IF teach.handler
        THEN /\ teach.captures + CLICK_EVENTS <= MaxCaptures
             /\ teach' = c2.t
             /\ learnedPatterns' = c2.ps
             /\ store' = IF teach.loaded THEN c2.ps ELSE store
             /\ vis' = vis
        ELSE /\ teach' = [t0 EXCEPT !.delivered = @ + CLICK_EVENTS]
             /\ vis' \in Reactions(vis)
             /\ UNCHANGED <<learnedPatterns, store>>
  /\ UNCHANGED <<page, checked, R, elapsed, pc, loc, result, hist, teachingMode, auto, lib>>

\* exitTeachingMode, and the detection pass it starts when auto mode is on. One
\* pass is modelled at a time: the new one when none is in flight.
exitTeachingMode ==
  /\ teachingMode' = FALSE
  /\ auto' = IF auto.enabled /\ auto.pc \in {"off", "watch"}
             THEN [auto EXCEPT !.pc = "w_flag", !.observer = FALSE, !.attempt = 0]
             ELSE auto

\* EXIT_TEACHING_MODE, or the overlay's cancel button.
ExitTeaching ==
  /\ Quiet
  /\ teachingMode
  /\ exitTeachingMode
  /\ teach' = [teach EXCEPT !.handler = FALSE]
  /\ UNCHANGED <<page, vis, checked, store, learnedPatterns, R, elapsed, pc, loc, result,
                 hist, lib>>

\* setTimeout(exitTeachingMode, 2500) fires.
ExitTimer ==
  /\ Quiet
  /\ teach.timers > 0
  /\ IF teachingMode THEN exitTeachingMode ELSE UNCHANGED <<teachingMode, auto>>
  /\ teach' = [teach EXCEPT !.timers = @ - 1, !.handler = FALSE]
  /\ UNCHANGED <<page, vis, checked, store, learnedPatterns, R, elapsed, pc, loc, result,
                 hist, lib>>

\* GET_LEARNED_PATTERNS: the popup asks, and the patterns are loaded.
GetLearnedPatterns ==
  /\ Quiet
  /\ ~teach.loaded
  /\ learnedPatterns' = loadLearnedPatterns
  /\ teach' = [teach EXCEPT !.loaded = TRUE]
  /\ UNCHANGED <<page, vis, checked, store, R, elapsed, pc, loc, result, hist,
                 teachingMode, auto, lib>>

\* The page posts DSC_CLEAN to its own window.
PageMessage(r) ==
  /\ Invoke(r, "page")
  /\ UNCHANGED <<page, vis, checked, store, learnedPatterns, R, elapsed, result, hist,
                 modes, auto>>

\* ------------------------------------------------------------ specification
\* A page of at most MaxElems parts: buttons, toggles, stored patterns, a vendor
\* API, a pay wall text, a banner without cookie keywords, a banner that has been
\* there for a while.
PageSize ==
  Len(btn) + Len(tog) + Len(store) + (IF host.api = "none" THEN 0 ELSE 1)
    + (IF host.body = <<>> THEN 0 ELSE 1) + (IF host.privacyKw THEN 0 ELSE 1)
    + (IF host.fresh THEN 0 ELSE 1)

InitPage ==
  /\ btn \in SeqsUpTo(Buttons, NBtn)
  /\ tog \in SeqsUpTo(Toggles, NTog)
  /\ Len(btn) + Len(tog) <= MaxElems
  /\ store \in SeqsUpTo(Patterns, NPat)
  /\ \A j, k \in DOMAIN store :
       store[j].text = store[k].text /\ store[j].selector = store[k].selector => j = k
  /\ host \in Hosts
  /\ PageSize <= MaxElems
  /\ vis \in [banner : {TRUE}, panel : BOOLEAN]
  /\ checked = [i \in DOMAIN tog |-> tog[i].on]

InitScript ==
  /\ learnedPatterns = <<>>
  /\ R = freshResults
  /\ elapsed = "lt"
  /\ result = [r \in Runs |-> "none"]
  /\ hist = {}
  /\ teachingMode = FALSE
  /\ teach = teach0
  /\ lib = lib0

\* One invocation of runDeny on a page, by RUN_CLEAN.
Init ==
  /\ InitPage
  /\ InitScript
  /\ loc = [r \in Runs |-> IF r = 1 THEN [loc0 EXCEPT !.kind = "manual"] ELSE loc0]
  /\ pc = [r \in Runs |-> IF r = 1 THEN "start" ELSE "idle"]
  /\ auto = autoOff

Step(r) ==
  \/ RunStart(r) \/ RunLoaded(r)
  \/ LearnedClick(r) \/ LearnedCheck(r) \/ LearnedSaved(r)
  \/ UniversalClick(r) \/ UniversalCheck(r) \/ UniversalStep2(r) \/ UniversalCheck2(r)
  \/ UniversalPost(r)
  \/ DenyClick(r) \/ DenyCheck1(r) \/ DenySaved(r) \/ DenyCheck3(r) \/ DenyRetry3(r)
  \/ ApiOneTrust(r) \/ ApiOneTrustDone(r) \/ ApiDidomiUC(r) \/ ApiUCDone(r)
  \/ ApiOsanoQuantcastTcf(r) \/ ApiQuantcastDone(r) \/ TcfTimeout(r)
  \/ ManageOpen(r) \/ ManageOpened(r) \/ ManageSettled(r) \/ ManageConfirm(r)
  \/ NavStart(r) \/ NavNext(r) \/ NavOpened(r) \/ NavDeny(r) \/ NavDenyCheck(r) \/ NavReturn(r)
  \/ Sweep(r) \/ SweepConfirm(r) \/ Iframes(r) \/ HideAndFinish(r)

\* What the host page does: it answers the TCF calls.
Host(r) ==
  \/ \E success \in BOOLEAN : TcfRejectAnswer(r, success)
  \/ \E success \in BOOLEAN : TcfData(r, success)

Next == (\E r \in Runs : Step(r) \/ Host(r)) \/ Tick

Spec == Init /\ [][Next]_vars

\* Overlapping invocations, auto mode and teaching mode, on a family of pages that
\* between them take a run through every phase; the runs stay within the deadline.
Host0(fresh, api, react) ==
  [body |-> <<>>, privacyKw |-> TRUE, fresh |-> fresh, api |-> api, react |-> react]

APage(b, t, h, s, panel) ==
  [btn |-> b, tog |-> t, host |-> h, store |-> s, vis |-> [banner |-> TRUE, panel |-> panel]]

RejectAll == Button(<<"reject", "all">>, "banner", "none")

Marketing(place) == Toggle(<<"marketing">>, place, FALSE, TRUE)

ConcPages ==
  {APage(<<RejectAll>>, <<>>, Host0(TRUE, "none", "close"),
         <<Pattern(<<"reject", "all">>, 1, 2, FALSE)>>, FALSE),
   APage(<<RejectAll>>, <<Marketing("banner")>>, Host0(TRUE, "none", "open"), <<>>, FALSE),
   APage(<<RejectAll>>, <<>>, Host0(FALSE, "none", "close"), <<>>, FALSE),
   APage(<<Button(<<"manage", "preferences">>, "banner", "none"),
           Button(<<"reject", "all">>, "panel", "none")>>, <<>>,
         Host0(TRUE, "none", "open"), <<>>, FALSE),
   APage(<<Button(<<"accept", "all", "cookies">>, "banner", "#sp_message_container button")>>,
         <<>>, Host0(FALSE, "none", "stay"), <<>>, FALSE),
   APage(<<Button(<<"ok">>, "panel", ".save-preference-btn-handler")>>,
         <<Marketing("panel")>>, Host0(FALSE, "OneTrust", "stay"), <<>>, TRUE),
   APage(<<Button(<<"ok">>, "banner", "button.uc-list-button__deny")>>, <<>>,
         Host0(FALSE, "Quantcast", "stay"), <<>>, FALSE),
   APage(<<>>, <<Marketing("iframe")>>, Host0(FALSE, "TCF", "stay"), <<>>, FALSE),
   APage(<<Button(<<"manage", "preferences">>, "banner", "none"),
           Button(<<"ok">>, "panel", ".save-preference-btn-handler")>>,
         <<Marketing("panel")>>, Host0(FALSE, "none", "open"), <<>>, FALSE),
   APage(<<Button(<<"vendors">>, "banner", "none"),
           Button(<<"reject", "all">>, "panel", "none")>>,
         <<Marketing("banner")>>, Host0(FALSE, "none", "open"), <<>>, FALSE)}

\* The script has been loaded into a page: checkAutoMode waits for the autoMode
\* flag, no run has been asked for.
InitConc ==
  /\ \E p \in ConcPages :
       /\ btn = p.btn
       /\ tog = p.tog
       /\ host = p.host
       /\ store = p.store
       /\ vis = p.vis
  /\ checked = [i \in DOMAIN tog |-> tog[i].on]
  /\ InitScript
  /\ loc = [r \in Runs |-> loc0]
  /\ pc = [r \in Runs |-> "idle"]
  /\ auto \in {[autoOff EXCEPT !.pc = "w_flag", !.enabled = e] : e \in BOOLEAN}

Messages(r) == RunClean(r) \/ AutoRun(r)

NextConc ==
  \/ \E r \in Runs : Step(r) \/ Host(r) \/ Messages(r)
  \/ AutoFlag \/ AutoRetry \/ AutoNotified \/ Mutation \/ ObserverTimeout
  \/ EnterTeaching \/ ExitTeaching

SpecConc == InitConc /\ [][NextConc]_vars

\* ------------------------------------------------------------------- SCAN_ONLY
\* document.querySelectorAll over the toggle selectors: the toggles of the document,
\* rendered or not; those of a frame are not the document's. The mutant counts the
\* rendered ones.
toggleCountVisible ==
  Cardinality({i \in DOMAIN tog : tog[i].place \in Document /\ isVisible(tog[i])})

toggleCount == Cardinality({i \in DOMAIN tog : tog[i].place \in Document})

\* The answer to SCAN_ONLY.
scanResponse ==
  [op |-> "scanned",
   cmps |-> IF detectCMPs = "null" THEN <<>> ELSE <<detectCMPs>>,
   cmp |-> IF detectCMPs = "null" THEN "Generic/Unknown" ELSE detectCMPs,
   bannerVisible |-> vis.banner \/ vis.panel,
   toggleCount |-> toggleCount]

\* The listener's SCAN_ONLY branch runs between two steps of the runs in flight.
ScanOnly ==
  /\ Quiet
  /\ lib' = scanResponse
  /\ UNCHANGED <<page, vis, checked, store, learnedPatterns, R, elapsed, pc, loc, result,
                 hist, teachingMode, teach, auto>>

\* Two invocations on a page whose banner holds "Reject All" over a settings panel
\* with a locked and a free toggle; a click may or may not close the banner.
FaultPage ==
  APage(<<RejectAll>>,
        <<Toggle(<<"marketing">>, "panel", TRUE, TRUE),
          Toggle(<<"marketing">>, "panel", FALSE, TRUE)>>,
        Host0(TRUE, "none", "any"), <<>>, TRUE)

InitFault ==
  /\ btn = FaultPage.btn
  /\ tog = FaultPage.tog
  /\ host = FaultPage.host
  /\ store = FaultPage.store
  /\ vis = FaultPage.vis
  /\ checked = [i \in DOMAIN tog |-> tog[i].on]
  /\ InitScript
  /\ loc = [r \in Runs |-> loc0]
  /\ pc = [r \in Runs |-> "idle"]
  /\ auto = autoOff

\* The steps of runDeny that this page makes possible.
FaultStep(r) ==
  \/ RunStart(r) \/ RunLoaded(r) \/ LearnedClick(r)
  \/ UniversalClick(r) \/ UniversalCheck(r) \/ UniversalPost(r)
  \/ DenyClick(r) \/ DenyCheck1(r) \/ DenySaved(r)
  \/ ApiOneTrust(r) \/ ApiDidomiUC(r) \/ ApiOsanoQuantcastTcf(r)
  \/ ManageOpen(r)
  \/ NavStart(r) \/ NavNext(r) \/ NavReturn(r)
  \/ Sweep(r) \/ SweepConfirm(r) \/ Iframes(r) \/ HideAndFinish(r)

NextFault ==
  \/ \E r \in Runs : RunClean(r) \/ FaultStep(r)
  \/ ScanOnly

SpecFault == InitFault /\ [][NextFault]_vars

\* One invocation on pages whose banner holds a settings button and an accordion section
\* ("Show vendors"); what the section holds is rendered when it is expanded.
ShowVendors == Button(<<"show", "vendors">>, "banner", "none")

SectPages ==
  {APage(<<Button(<<"manage", "preferences">>, "banner", "none"), ShowVendors,
           Button(<<"reject", "all">>, "panel", "none")>>,
         t, [Host0(f, "none", "any") EXCEPT !.privacyKw = k], <<>>, FALSE) :
     t \in {<<>>, <<Marketing("panel")>>}, f \in BOOLEAN, k \in BOOLEAN}

InitSect ==
  /\ \E p \in SectPages :
       /\ btn = p.btn
       /\ tog = p.tog
       /\ host = p.host
       /\ store = p.store
       /\ vis = p.vis
  /\ checked = [i \in DOMAIN tog |-> tog[i].on]
  /\ InitScript
  /\ loc = [r \in Runs |-> IF r = 1 THEN [loc0 EXCEPT !.kind = "manual"] ELSE loc0]
  /\ pc = [r \in Runs |-> IF r = 1 THEN "start" ELSE "idle"]
  /\ auto = autoOff

\* The steps of runDeny that these pages make possible.
SectStep(r) ==
  \/ RunStart(r) \/ RunLoaded(r) \/ LearnedClick(r)
  \/ UniversalClick(r) \/ UniversalCheck(r) \/ UniversalStep2(r) \/ UniversalCheck2(r)
  \/ UniversalPost(r)
  \/ DenyClick(r) \/ DenyCheck1(r) \/ DenySaved(r)
  \/ ApiOneTrust(r) \/ ApiDidomiUC(r) \/ ApiOsanoQuantcastTcf(r)
  \/ ManageOpen(r) \/ ManageOpened(r) \/ ManageSettled(r) \/ ManageConfirm(r)
  \/ NavStart(r) \/ NavNext(r) \/ NavReturn(r)
  \/ Sweep(r) \/ Iframes(r) \/ HideAndFinish(r)
  \/ SectionNext(r) \/ SectionOpened(r) \/ SectionDenyCheck(r)

NextSect == (\E r \in Runs : SectStep(r)) \/ Tick

SpecSect == InitSect /\ [][NextSect]_vars

\* The script has been loaded into a page behind a pay wall (a run on it ends at the
\* pay-wall check); auto mode is on or off, the page may have set the test-mode
\* item (with auto mode on the item makes no difference), and the user may teach.
\* Bound: runs of the script while the user teaches.
TeachRuns == 1

TeachPages ==
  {APage(<<RejectAll>>, <<>>,
         [Host0(TRUE, "none", "close") EXCEPT !.body = <<"subscribe", "to", "continue">>],
         <<Pattern(<<"reject", "all">>, 1, 2, FALSE)>>, FALSE),
   APage(<<Button(<<"ok">>, "banner", "none")>>, <<>>,
         [Host0(FALSE, "none", "stay") EXCEPT !.body = <<"subscribe", "to", "continue">>,
                                              !.privacyKw = FALSE],
         <<>>, FALSE)}

InitTeach ==
  /\ \E p \in TeachPages :
       /\ btn = p.btn
       /\ tog = p.tog
       /\ host = p.host
       /\ store = p.store
       /\ vis = p.vis
  /\ checked = [i \in DOMAIN tog |-> tog[i].on]
  /\ InitScript
  /\ loc = [r \in Runs |-> loc0]
  /\ pc = [r \in Runs |-> "idle"]
  /\ auto \in {[autoOff EXCEPT !.pc = "w_flag", !.enabled = m[1], !.testMode = m[2]] :
                 m \in {<<TRUE, FALSE>>, <<FALSE, FALSE>>, <<FALSE, TRUE>>}}

NextTeach ==
  \/ \E r \in 1..TeachRuns : RunClean(r) \/ PageMessage(r) \/ AutoRun(r) \/ RunStart(r) \/ RunLoaded(r)
  \/ AutoFlag \/ AutoRetry \/ AutoNotified \/ Mutation \/ ObserverTimeout
  \/ EnterTeaching \/ ExitTeaching \/ ExitTimer
  \/ UserClick \/ TeachSaved \/ GetLearnedPatterns

SpecTeach == InitTeach /\ [][NextTeach]_vars

\* With the unload listener. A handler that was called runs on to its first await,
\* and the 20 s timer fires once it is due.
NextWatch == NextTeach \/ BeforeUnload

SpecWatch ==
  /\ InitTeach /\ [][NextWatch]_vars
  /\ WF_vars(\E r \in Runs : RunStart(r))
  /\ WF_vars(ObserverTimeout)

\* ------------------------------------------------- the semantic library
\* The English families of SemanticLibrary, as the token sequences they accept;
\* the families of the other languages accept no label of the English vocabulary
\* used here.
LIB_DENY_PATTERNS ==
  Cat(Words({"deny", "reject", "refuse", "decline", "object", "disagree"}), Opt({<<"all">>}))
  \cup {<<"object", "to", "all">>, <<"no", "thanks">>, <<"no", "thank">>,
        <<"no", "thank", "you">>, <<"skip">>, <<"dismiss">>, <<"not", "now">>,
        <<"maybe", "later">>, <<"later">>}
  \cup Cat(Cat(Cat(Words({"only", "just"}), Necessary), Cookies), Opt({<<"only">>}))
  \cup Cat(Cat(Cat(Cat(Words({"allow", "use", "accept"}), Opt({<<"only">>})), Necessary),
               Cookies), Opt({<<"only">>}))
  \cup {<<"necessary", "only">>, <<"essential", "only">>, <<"strictly", "necessary">>}
  \cup Cat(Cat({<<"reject">>},
               Words({"additional", "all", "non-essential", "optional", "tracking",
                      "analytics", "marketing", "advertising", "non-necessary"})), Cookies)
  \cup Cat(Cat({<<"decline">>},
               Words({"additional", "all", "non-essential", "optional", "tracking",
                      "analytics", "marketing"})), Cookies)
  \cup Cat(Cat(Words({"deny", "refuse"}),
               Words({"additional", "all", "non-essential", "optional"})), Cookies)
  \cup Cat({<<"continue", "without">>},
           Words({"accepting", "agreeing", "consenting", "cookie", "cookies"}))
  \cup Cat({<<"proceed", "without">>}, Words({"accepting", "consenting"}))
  \cup Cat({<<"browse", "without">>}, Words({"accepting", "cookies"}))
  \cup {<<"go", "without">>}
  \cup Cat(Cat(Opt({<<"i">>}), {<<"do", "not">>, <<"dont">>, <<"don't">>}),
           Words({"accept", "consent", "agree"}))
  \cup Cat({<<"opt", "out">>}, Opt({<<"of", "all">>}))
  \cup Cat(Cat({<<"withdraw">>}, Opt({<<"all">>})), Opt({<<"consent">>}))

Settings == Words({"setting", "settings"})

Preferences == Words({"preference", "preferences"})

Choices == Words({"choice", "choices"})

Options == Words({"option", "options"})

\* english_manage, english_learn, english_click, english_edit.
LIB_MANAGE_PATTERNS ==
  Cat(Cat({<<"manage">>}, Cookies), Opt(Preferences \cup Settings \cup Choices \cup Options))
  \cup Cat(Cat({<<"customize">>}, Cookies), Opt(Preferences \cup Settings \cup Choices))
  \cup Settings \cup Preferences \cup Options \cup Choices
  \cup Cat({<<"cookie">>}, Settings \cup Preferences \cup Options \cup Choices)
  \cup Cat({<<"privacy">>}, Settings \cup Preferences \cup Options)
  \cup {<<"learn", "more">>}
  \cup Cat({<<"more">>}, Words({"information", "info", "details"}) \cup Options)
  \cup Cat({<<"show">>}, Words({"more", "details"}) \cup Options)
  \cup Cat(Cat({<<"view">>}, Opt({<<"cookie">>})),
           Settings \cup Preferences \cup Options \cup Words({"detail", "details"}))
  \cup {<<"see", "details">>, <<"see", "options">>, <<"detail">>, <<"details">>}
  \cup {<<"click", "here">>, <<"here">>}
  \cup Cat({<<"click", "here", "to">>}, Words({"manage", "customize", "change", "update"}))
  \cup Cat({<<"click", "for">>}, Words({"more", "details", "options"}))
  \cup Cat(Cat({<<"change">>}, Opt({<<"my">>})), Opt(Settings \cup Preferences \cup Choices))
  \cup Cat(Words({"edit", "update", "modify", "adjust"}), Opt(Settings \cup Preferences))
  \cup Cat({<<"advanced">>}, Settings \cup Options)
  \cup Cat(Words({"detailed", "individual"}), Settings \cup Preferences)
  \cup {<<"granular", "control">>}

\* CONFIRM_PATTERNS.english.
LIB_CONFIRM_PATTERNS ==
  Cat(Cat(Words({"save", "confirm"}), Opt({<<"my">>})),
      Opt(Preferences \cup Choices \cup Settings \cup {<<"selection">>}))
  \cup Cat(Cat(Words({"accept", "allow"}), Opt({<<"my">>})), {<<"selection">>})
  \cup Cat({<<"apply">>}, Opt(Settings))
  \cup Cat({<<"update">>}, Opt(Preferences))
  \cup {<<"submit">>, <<"done">>, <<"got", "it">>, <<"close">>, <<"dismiss">>, <<"ok">>,
        <<"okay">>, <<"continue">>, <<"proceed">>}

\* ACCEPT_PATTERNS.english.
LIB_ACCEPT_PATTERNS ==
  Cat(Cat(Words({"accept", "allow"}), Opt({<<"all">>})), Cookies)
  \cup Cat({<<"agree">>}, Opt({<<"and", "close">>}))
  \cup {<<"consent">>}
  \cup Cat(Opt({<<"i">>}), {<<"understand">>, <<"got", "it">>})
  \cup Cat(Cat({<<"yes">>}, Opt({<<"i">>})), Words({"accept", "agree", "allow"}))

Categories == {"deny", "confirm", "manage", "accept"}

\* matchesCustomPatterns: the lower-cased label includes a custom pattern's text
\* (the pattern's regex, \btext\b, matches nothing that this test does not).
matchesCustomPatterns(custom, text, category) == hasKeyword(text, custom[category])

\* /\b(selection|my\s+(choices?|preferences?|settings?))\b/
AfterCustomizing(text) ==
  HasWord(text, {"selection"})
    \/ HasPhrase(text, Cat({<<"my">>}, Choices \cup Preferences \cup Settings))

\* /\bdo\s+not\s+(reject|deny|decline)\b/
DoubleNegative(text) ==
  HasPhrase(text, Cat({<<"do", "not">>}, Words({"reject", "deny", "decline"})))

\* SemanticLibrary.classifyButton.
libClassifyButton(custom, text) ==
  IF text = <<>> THEN "unknown"
  ELSE IF matchesCustomPatterns(custom, text, "deny") THEN "deny"
  ELSE IF matchesCustomPatterns(custom, text, "confirm") THEN "confirm"
  ELSE IF matchesCustomPatterns(custom, text, "manage") THEN "manage"
  ELSE IF matchesCustomPatterns(custom, text, "accept") /\ ~AfterCustomizing(text)
  THEN "accept"
  ELSE IF text \in LIB_ACCEPT_PATTERNS /\ ~AfterCustomizing(text) THEN "accept"
  ELSE IF text \in LIB_DENY_PATTERNS /\ ~DoubleNegative(text) THEN "deny"
  ELSE IF text \in LIB_CONFIRM_PATTERNS THEN "confirm"
  ELSE IF text \in LIB_MANAGE_PATTERNS THEN "manage"
  ELSE "unknown"

\* Bound: custom patterns per category.
MaxCustom == 1

CustomTexts == {<<"reject">>, <<"agree">>, <<"accept">>}

Customs ==
  [Categories -> {S \in SUBSET CustomTexts : Cardinality(S) <= MaxCustom}]

\* Labels the classifiers are asked about.
Labels ==
  {<<"reject", "all">>, <<"accept", "all">>, <<"got", "it">>, <<"dismiss">>,
   <<"accept", "selection">>, <<"accept", "my", "choices">>, <<"allow", "selection">>,
   <<"do", "not", "reject">>, <<"do", "not", "deny">>, <<"do", "not", "decline">>,
   <<"i", "do", "not", "agree">>, <<"update", "preferences">>, <<"cookie", "settings">>,
   <<"cookie", "consent", "settings">>, <<"save", "my", "choice">>, <<"vendors">>,
   <<"ok">>, <<"continue">>, <<"manage", "preferences">>,
   <<"accept", "necessary", "cookies">>}

\* A label is given to both classifiers: the library's and the content script's.
Classify ==
  /\ lib.op = "classifyButton"
  /\ lib' = [lib EXCEPT !.op = "classified",
                        !.library = libClassifyButton(lib.custom, lib.text),
                        !.content = classifyButton(lib.text, <<>>)]
  /\ UNCHANGED <<page, vis, checked, store, learnedPatterns, R, elapsed, pc, loc, result,
                 hist, teachingMode, teach, auto>>

\* ------------------------------------------------- the learning module
\* Confidences are kept as exact fractions n/d.
Q(n, d) == [n |-> n, d |-> d]

QMul(a, b) == Q(a.n * b.n, a.d * b.d)

QAdd(a, b) == Q(a.n * b.d + b.n * a.d, a.d * b.d)

QLeq(a, b) == a.n * b.d <= b.n * a.d

QEq(a, b) == a.n * b.d = b.n * a.d

QMin(a, b) == IF QLeq(a, b) THEN a ELSE b

QMax(a, b) == IF QLeq(a, b) THEN b ELSE a

MIN_CONFIDENCE_FOR_LIBRARY == Q(85, 100)

MIN_USAGE_COUNT_FOR_LIBRARY == 10

MIN_DOMAINS_FOR_LIBRARY == 3

USAGE_CAP == 20

\* Bounds: the uses of one pattern, and the sites it is used on.
MaxUsage == 21

MaxSites == 3

Sites == 1..MaxSites

\* The confidence without the cap on the usage factor.
confidenceUncapped(successCount, usageCount) ==
  QAdd(Q(1, 2), QMul(QMul(Q(successCount, usageCount), Q(usageCount, USAGE_CAP)), Q(1, 2)))

\* 0.5 + (successRate * usageFactor * 0.5)
confidenceOf(successCount, usageCount) ==
  LET successRate == Q(successCount, usageCount)
      usageFactor == QMin(Q(usageCount, USAGE_CAP), Q(1, 1))
  IN QAdd(Q(1, 2), QMul(QMul(successRate, usageFactor), Q(1, 2)))

\* globalPatterns[key] for the one key used here, before the label is first learned;
\* promoted: customSemanticPatterns in storage holds the pattern; rule: the rule that
\* addToSemanticLibrary last built from the pattern.
learn0 ==
  [op |-> "learn", exists |-> FALSE, usageCount |-> 0, successCount |-> 0, domains |-> {},
   confidence |-> Q(0, 1), source |-> "none", promoted |-> FALSE, last |-> "none",
   by |-> "none", rule |-> [built |-> FALSE, confidence |-> Q(0, 1), source |-> "none"]]

isReadyForLibrary(p) ==
  /\ QLeq(MIN_CONFIDENCE_FOR_LIBRARY, p.confidence)
  /\ p.usageCount >= MIN_USAGE_COUNT_FOR_LIBRARY
  /\ Cardinality(p.domains) >= MIN_DOMAINS_FOR_LIBRARY

\* addToSemanticLibrary pushes the rule on its local copy of the custom patterns and
\* then evaluates chrome.storage.local.set({ customSemanticPatterns }): no variable
\* of that name is in scope, the ReferenceError is caught and false is returned
\* with storage as it was.
addToSemanticLibrary(p) == p.promoted

updated(p, domain, source, success) ==
  LET u == p.usageCount + 1
      s == IF success THEN p.successCount + 1 ELSE p.successCount
      c == confidenceOf(s, u)
      taught == success /\ source = "user" /\ p.source # "user-taught"
  IN [p EXCEPT !.usageCount = u, !.successCount = s,
               !.domains = IF success THEN @ \cup {domain} ELSE @,
               !.confidence = IF taught THEN QMax(c, Q(90, 100)) ELSE c,
               !.source = IF taught THEN "user-taught" ELSE @,
               !.last = IF success THEN "success" ELSE "failure",
               !.by = source]

created(p, domain, source) ==
  [p EXCEPT !.exists = TRUE, !.usageCount = 1, !.successCount = 1, !.domains = {domain},
            !.confidence = IF source = "user" THEN Q(95, 100) ELSE Q(50, 100),
            !.source = IF source = "user" THEN "user-taught" ELSE "auto-learned",
            !.last = "created", !.by = source]

learnFromSuccess(p, domain, source) ==
  LET q == IF p.exists THEN updated(p, domain, source, TRUE) ELSE created(p, domain, source)
  IN IF isReadyForLibrary(q)
     THEN [q EXCEPT !.promoted = addToSemanticLibrary(q),
                    !.rule = [built |-> TRUE, confidence |-> q.confidence,
                              source |-> q.source]]
     ELSE q

learnFromFailure(p) == IF p.exists THEN updated(p, 0, "auto", FALSE) ELSE p

LearnFromSuccess ==
  /\ lib.op = "learn"
  /\ lib.usageCount < MaxUsage
  /\ \E domain \in Sites, source \in {"auto", "user"} :
       lib' = learnFromSuccess(lib, domain, source)
  /\ UNCHANGED <<page, vis, checked, store, learnedPatterns, R, elapsed, pc, loc, result,
                 hist, teachingMode, teach, auto>>

LearnFromFailure ==
  /\ lib.op = "learn"
  /\ lib.exists
  /\ lib.usageCount < MaxUsage
  /\ lib' = learnFromFailure(lib)
  /\ UNCHANGED <<page, vis, checked, store, learnedPatterns, R, elapsed, pc, loc, result,
                 hist, teachingMode, teach, auto>>

\* ------------------------------------------------- expiry of stored patterns
\* Bound: the keys of the global pattern store, and the length of a site's list.
MaxKeys == 2

MaxList == 2

\* A pattern of the global store; confident: confidence > 0.85; unused: last used
\* PATTERN_EXPIRY_DAYS ago or earlier.
GlobalPatterns ==
  [key : 1..MaxKeys, source : {"user-taught", "auto-learned"}, confident : BOOLEAN,
   unused : BOOLEAN]

GlobalStores ==
  {g \in SUBSET GlobalPatterns : \A p, q \in g : p.key = q.key => p = q}

\* A pattern of a site's list; expired: learned LEARNED_PATTERN_EXPIRY_DAYS ago or
\* earlier.
SitePatterns ==
  [text : {<<"reject", "all">>}, selector : {1}, successCount : {1},
   expired : BOOLEAN, method : {"user-taught", "auto-learned"}]

\* cleanExpiredPatterns: the global store afterwards.
cleanExpiredPatterns(g) ==
  {p \in g :
     LET isUserTaught == p.source = "user-taught"
         isHighConfidence == p.confident /\ ~p.unused
         notExpired == ~p.unused
     IN ~(~isUserTaught /\ ~isHighConfidence /\ ~notExpired)}

ExpiryInputs ==
  {[op |-> "expire", global |-> g, site |-> ps, cleaned |-> FALSE, loaded |-> FALSE,
    globalNow |-> g, siteNow |-> ps] : g \in GlobalStores, ps \in SeqsUpTo(SitePatterns, MaxList)}

\* LearningModule.init cleans the global store.
CleanExpiredPatterns ==
  /\ lib.op = "expire"
  /\ ~lib.cleaned
  /\ lib' = [lib EXCEPT !.cleaned = TRUE, !.globalNow = cleanExpiredPatterns(@)]
  /\ UNCHANGED <<page, vis, checked, store, learnedPatterns, R, elapsed, pc, loc, result,
                 hist, teachingMode, teach, auto>>

\* loadLearnedPatterns filters the site's list.
LoadLearnedPatterns ==
  /\ lib.op = "expire"
  /\ ~lib.loaded
  /\ lib' = [lib EXCEPT !.loaded = TRUE, !.siteNow = unexpired(@)]
  /\ UNCHANGED <<page, vis, checked, store, learnedPatterns, R, elapsed, pc, loc, result,
                 hist, teachingMode, teach, auto>>

\* ------------------------------------------------- the cap of the global store
MAX_LEARNED_PATTERNS_GLOBAL == 500

\* The patterns of the global store by confidence and usageCount: the store is kept
\* as the number of its patterns of each class, in the order of their keys.
Classes ==
  <<[confidence |-> Q(50, 100), usageCount |-> 1],
    [confidence |-> Q(85, 100), usageCount |-> 14],
    [confidence |-> Q(55, 100), usageCount |-> 2],
    [confidence |-> Q(95, 100), usageCount |-> 1]>>

\* Bound: the classes in use.
NClasses == 3

InUse == 1..NClasses

\* The numbers of patterns of one class.
Counts == {0, 1, 2, 250, 499, 500, 501}

score(c) == QMul(Classes[c].confidence, Q(Classes[c].usageCount, 1))

RECURSIVE Total(_, _)
Total(g, S) ==
  IF S = {} THEN 0 ELSE LET c == CHOOSE c \in S : TRUE IN g[c] + Total(g, S \ {c})

Least(a, b) == IF a <= b THEN a ELSE b

Positive(a) == IF a >= 0 THEN a ELSE 0

\* The store that keeps the first patterns in the order of their keys.
saveFirst(g) ==
  IF Total(g, InUse) > MAX_LEARNED_PATTERNS_GLOBAL
  THEN [c \in InUse |->
          Least(g[c], Positive(MAX_LEARNED_PATTERNS_GLOBAL - Total(g, {d \in InUse : d < c})))]
  ELSE g

\* save: over the cap, the patterns are sorted by confidence * usageCount, highest
\* first, and the first MAX_LEARNED_PATTERNS_GLOBAL are kept.
save(g) ==
  IF Total(g, InUse) > MAX_LEARNED_PATTERNS_GLOBAL
  THEN [c \in InUse |->
          LET before == {d \in InUse : ~QLeq(score(d), score(c))}
          IN Least(g[c], Positive(MAX_LEARNED_PATTERNS_GLOBAL - Total(g, before)))]
  ELSE g

SaveInputs ==
  {[op |-> "save", memory |-> g, stored |-> [c \in InUse |-> 0], saved |-> FALSE] :
     g \in [InUse -> Counts]}

\* learnFromSuccess, learnFromFailure and importPatterns end with save().
Save ==
  /\ lib.op = "save"
  /\ ~lib.saved
  /\ lib' = [lib EXCEPT !.saved = TRUE, !.stored = save(lib.memory)]
  /\ UNCHANGED <<page, vis, checked, store, learnedPatterns, R, elapsed, pc, loc, result,
                 hist, teachingMode, teach, auto>>

\* ------------------------------------------------- the cap of a site's list
\* Bound: the success counts of the stored patterns.
MaxSuccess == 2

\* A site's list: pattern k is found by selector k.
SiteLists ==
  UNION {{[k \in 1..n |-> Pattern(<<"reject", "all">>, k, c[k], FALSE)] :
            c \in [1..n -> 1..MaxSuccess]} : n \in 0..MAX_LEARNED_PATTERNS_PER_DOMAIN}

\* The pattern that arrives: one of the list (the first) or a new one.
SiteSaveInputs ==
  {[op |-> "saveLearnedPattern", list |-> ps, selector |-> k, listNow |-> ps] :
     ps \in SiteLists, k \in {1, MAX_LEARNED_PATTERNS_PER_DOMAIN + 1}}

SaveLearnedPattern ==
  /\ lib.op = "saveLearnedPattern"
  /\ lib' = [lib EXCEPT !.op = "savedLearnedPattern",
                        !.listNow = saveLearnedPattern(lib.list, <<"reject", "all">>,
                                                       lib.selector)]
  /\ UNCHANGED <<page, vis, checked, store, learnedPatterns, R, elapsed, pc, loc, result,
                 hist, teachingMode, teach, auto>>

\* ------------------------------------------------------------ one toggle, closely
\* safeUncheck on one toggle, with what the existing safeUncheck leaves out: click()
\* may turn the toggle off, leave it as it is or raise; after the forced write the
\* page's own change listener may put the state back (reverts).
ToggleInputs ==
  [op : {"safeUncheck"}, processed : BOOLEAN, on : BOOLEAN,
   click : {"works", "ignored", "throws"}, reverts : BOOLEAN,
   onNow : {FALSE}, denied : {FALSE}, error : {FALSE}, forced : {0}, returned : {FALSE}]

uncheck(t) ==
  IF t.processed \/ ~t.on THEN [t EXCEPT !.onNow = t.on]
  ELSE IF t.click = "throws" THEN [t EXCEPT !.onNow = t.on, !.error = TRUE]
  ELSE LET nowChecked == t.click = "ignored" IN
       [t EXCEPT !.forced = IF nowChecked THEN 1 ELSE 0,
                 !.onNow = nowChecked /\ t.reverts,
                 !.denied = TRUE,
                 !.returned = TRUE]

SafeUncheck ==
  /\ lib.op = "safeUncheck"
  /\ lib' = [uncheck(lib) EXCEPT !.op = "safeUnchecked"]
  /\ UNCHANGED <<page, vis, checked, store, learnedPatterns, R, elapsed, pc, loc, result,
                 hist, teachingMode, teach, auto>>

\* ------------------------------------------------------- two tabs, one store
\* chrome.storage.local is one store for every tab; each tab's script works on its
\* own copy of the learnedPatterns map. Tab t shows site t.
Tabs == 1..2

MaxSaves == 3

TaughtTexts == {<<"reject", "all">>, <<"no", "thanks">>}

tabs0 ==
  [op |-> "tabs",
   storage |-> [s \in Tabs |-> <<>>],
   copy |-> [t \in Tabs |-> [loaded |-> FALSE, map |-> [s \in Tabs |-> <<>>]]],
   saves |-> 0]

\* loadLearnedPatterns in tab t: the whole map is read and the expired patterns go.
TabLoad(t) ==
  /\ lib.op = "tabs"
  /\ lib' = [lib EXCEPT !.copy[t] =
               [loaded |-> TRUE, map |-> [s \in Tabs |-> unexpired(lib.storage[s])]]]
  /\ UNCHANGED <<page, vis, checked, store, learnedPatterns, R, elapsed, pc, loc, result,
                 hist, teachingMode, teach, auto>>

\* saveLearnedPattern in tab t: its copy is updated and written as a whole.
TabSave(t, text) ==
  /\ lib.op = "tabs"
  /\ lib.copy[t].loaded
  /\ lib.saves < MaxSaves
  /\ LET map == [lib.copy[t].map EXCEPT ![t] = saveLearnedPattern(@, text, 0)]
     IN lib' = [lib EXCEPT !.copy[t].map = map, !.storage = map, !.saves = @ + 1]
  /\ UNCHANGED <<page, vis, checked, store, learnedPatterns, R, elapsed, pc, loc, result,
                 hist, teachingMode, teach, auto>>

\* ------------------------------------------------------------------- dedupe
\* The lists dedupe is given: entries as tryCMPApis pushes them for a TCF purpose
\* that has a consent and a legitimate interest, or is mandatory.
MaxEntries == 2

TcfEntries ==
  {Entry("Purpose 2", <<>>, "TCF Purpose", "consent", 1),
   Entry("Purpose 2", <<>>, "TCF Purpose", "legitimate interest", 1),
   Entry("Purpose 2", <<>>, "TCF (mandatory)", "consent", 1)}

DedupeInputs ==
  {[op |-> "dedupe", arr |-> a, out |-> a] :
     a \in UNION {[1..n -> TcfEntries] : n \in 0..MaxEntries}}

Dedupe ==
  /\ lib.op = "dedupe"
  /\ lib' = [lib EXCEPT !.op = "deduped", !.out = dedupe(lib.arr)]
  /\ UNCHANGED <<page, vis, checked, store, learnedPatterns, R, elapsed, pc, loc, result,
                 hist, teachingMode, teach, auto>>

\* ------------------------------------ learnFromSuccess on a store at its cap
\* The global store before the call holds at most MAX_LEARNED_PATTERNS_GLOBAL
\* patterns (every save leaves it so); known: the label's key is one of them.
StoreInputs ==
  {[op |-> "learnFromSuccess", memory |-> g, known |-> k, source |-> "none",
    present |-> k, returned |-> "none"] :
     g \in {h \in [InUse -> Counts] : Total(h, InUse) <= MAX_LEARNED_PATTERNS_GLOBAL},
     k \in BOOLEAN}

\* The score save() sorts a pattern by when learnFromSuccess has just created it.
scoreCreated(source) ==
  LET q == created(learn0, 1, source) IN QMul(q.confidence, Q(q.usageCount, 1))

\* learnFromSuccess with the save() it ends with. A known key is updated and the
\* store does not grow. A new key is the last one of the store: the sort is stable,
\* so every pattern whose score is at least the new one's comes before it, and the
\* new pattern is kept when fewer than MAX_LEARNED_PATTERNS_GLOBAL do. true is
\* returned in both cases.
LearnAndSave ==
  /\ lib.op = "learnFromSuccess"
  /\ lib.returned = "none"
  /\ lib.known => Total(lib.memory, InUse) >= 1
  /\ \E source \in {"auto", "user"} :
       LET ahead == Total(lib.memory, {d \in InUse : QLeq(scoreCreated(source), score(d))})
           grown == Total(lib.memory, InUse) + 1
       IN lib' = [lib EXCEPT !.source = source,
                             !.returned = "true",
                             !.present = \/ lib.known
                                         \/ grown <= MAX_LEARNED_PATTERNS_GLOBAL
                                         \/ ahead < MAX_LEARNED_PATTERNS_GLOBAL]
  /\ UNCHANGED <<page, vis, checked, store, learnedPatterns, R, elapsed, pc, loc, result,
                 hist, teachingMode, teach, auto>>

\* The library functions are applied to inputs drawn from bounded sets, on a page
\* with no consent surface and with no run of the script.
NoPage ==
  APage(<<>>, <<>>, Host0(FALSE, "none", "stay"), <<>>, FALSE)

ClassifyInputs ==
  {[op |-> "classifyButton", custom |-> c, text |-> t, library |-> "none",
    content |-> "none"] : c \in Customs, t \in Labels}

InitLib ==
  /\ btn = NoPage.btn
  /\ tog = NoPage.tog
  /\ host = NoPage.host
  /\ store = NoPage.store
  /\ vis = NoPage.vis
  /\ checked = [i \in DOMAIN tog |-> tog[i].on]
  /\ learnedPatterns = <<>>
  /\ R = freshResults
  /\ elapsed = "lt"
  /\ result = [r \in Runs |-> "none"]
  /\ hist = {}
  /\ teachingMode = FALSE
  /\ teach = teach0
  /\ loc = [r \in Runs |-> loc0]
  /\ pc = [r \in Runs |-> "idle"]
  /\ auto = autoOff
  /\ lib \in ClassifyInputs \cup {learn0} \cup ExpiryInputs \cup SaveInputs
            \cup SiteSaveInputs \cup ToggleInputs \cup {tabs0}
            \cup DedupeInputs \cup StoreInputs

NextLib ==
  \/ Classify
  \/ LearnFromSuccess \/ LearnFromFailure
  \/ CleanExpiredPatterns \/ LoadLearnedPatterns
  \/ Save \/ SaveLearnedPattern
  \/ SafeUncheck \/ Dedupe \/ LearnAndSave
  \/ \E t \in Tabs : TabLoad(t) \/ \E text \in TaughtTexts : TabSave(t, text)

SpecLib == InitLib /\ [][NextLib]_vars

\* ----------------------------------------------------------------- properties
Activations == {e \in hist : e.ev \in {"click", "confirm"}}

Acts == {e \in hist : e.ev \in {"click", "confirm", "toggle", "api", "hide"}}

classOf(i) == classifyButton(btn[i].text, btn[i].attrs)

\* C1: no control whose label classifies as Accept is ever activated, in any phase
\* of a run; a surface that offers only Accept is left to the toggle sweep and the
\* forced hide.
C1_AcceptNeverActivated == \A e \in Activations : classOf(e.n) # "accept"

Mandatory(i) == ~tog[i].disabled /\ tog[i].on /\ hasKeyword(tog[i].label \o tog[i].ctx, MANDATORY_KEYWORDS)

Listed(list, i) == \E k \in DOMAIN list : list[k].label = <<"", tog[i].label>>

\* C2: an enabled, checked toggle whose label or context holds a keyword of the
\* multilingual mandatory set keeps its state and is never recorded as denied.
C2_MandatoryKept ==
  \A i \in DOMAIN tog : Mandatory(i) => checked[i] /\ ~Listed(R.unchecked, i)

PayWallText == HasPhrase(host.body, {<<"subscribe", "to", "continue">>})

\* C3: with pay wall text on the page the run aborts at its first state: nothing is
\* clicked, toggled, called or hidden, and the result it returns has an empty denied
\* list, the pay wall flag and an error entry.
C3_PayWallAborts ==
  PayWallText =>
    /\ Acts = {}
    /\ checked = [i \in DOMAIN tog |-> tog[i].on]
    /\ pc[1] \in {"start", "w_load", "done"}
    /\ pc[1] = "done" =>
         /\ result[1].unchecked = <<>>
         /\ result[1].consentOrPay
         /\ \E k \in DOMAIN result[1].errors :
              result[1].errors[k].label = <<"Consent or Pay Wall", <<>>>>

C3_Witness ==
  /\ PayWallText
  /\ pc[1] = "done"
  /\ VisibleButtons # {}
  /\ \E i \in DOMAIN tog : tog[i].on /\ ~tog[i].disabled

\* C4: every wait of a run ends without the host page's help, so that the run
\* completes and its caller gets a RunResult whatever the host page does.
C4_WaitsEndWithoutHost ==
  \A r \in Runs : pc[r] \notin {"idle", "done"} => ENABLED (Step(r) \/ Tick)

\* C5: once the deadline has passed no state of the run begins.
C5_NoStateBeginsLate == \A e \in hist : e.ev = "begin" => ~e.late

\* C6: once a state has succeeded, no later state of the run acts.
C6_SuccessEndsRun ==
  \A s \in hist : \A e \in Acts :
    s.ev = "success" /\ s.by = e.by => PhaseNo(e.phase) <= PhaseNo(s.phase)

NoDuplicates(list) ==
  \A j, k \in DOMAIN list : Key(list[j]) = Key(list[k]) => j = k

\* C7: the denied and the kept list of a delivered RunResult hold no two entries
\* with the same label, category and kind.
C7_NoDuplicateEntries ==
  \A r \in Runs : pc[r] = "done" =>
    NoDuplicates(result[r].unchecked) /\ NoDuplicates(result[r].mandatory)

Entries(res) ==
  {res.unchecked[k] : k \in DOMAIN res.unchecked}
    \cup {res.mandatory[k] : k \in DOMAIN res.mandatory}
    \cup {res.errors[k] : k \in DOMAIN res.errors}

\* C8: every invocation has a RunResult of its own: the result its caller gets
\* holds no entry that another invocation recorded.
C8_OwnResult ==
  \A r \in Runs : pc[r] = "done" => \A e \in Entries(result[r]) : e.by = r

\* C9: auto mode starts a run only when no run is under way, the watcher is off
\* while a manual run is under way, and at most one run is in progress.
C9_OneRunAtATime ==
  /\ \A r \in Runs : loc[r].kind = "auto" => ~loc[r].overlap
  /\ \A r \in Runs : Active(r) /\ loc[r].kind = "manual" => ~auto.observer
  /\ Cardinality({r \in Runs : Active(r)}) <= 1

\* C10: no autonomous run is started while teaching mode is on.
C10_NoAutoRunWhileTeaching ==
  \A r \in Runs : loc[r].kind = "auto" => ~loc[r].teaching

\* C11: the user's click in teaching mode is captured exactly once: never more than
\* one record or increment is persisted for it, and when its handlers have finished
\* exactly one has been persisted and the click has reached the clicked control.
C11_TaughtOnce ==
  teach.clicks = 1 =>
    /\ teach.saved <= 1
    /\ teach.saving = 0 => (teach.saved = 1 /\ teach.delivered >= 1)

\* C12: with the auto-run flag off every run is one that a RUN_CLEAN request started.
C12_NoRunOnItsOwn ==
  ~auto.enabled => \A r \in Runs : loc[r].kind \in {"none", "manual"}

\* The built-in families of the library that a label matches, a match being one
\* that the family's exclusion does not reject.
Matching(text) ==
  {c \in Categories :
     \/ c = "deny" /\ text \in LIB_DENY_PATTERNS /\ ~DoubleNegative(text)
     \/ c = "confirm" /\ text \in LIB_CONFIRM_PATTERNS
     \/ c = "manage" /\ text \in LIB_MANAGE_PATTERNS
     \/ c = "accept" /\ text \in LIB_ACCEPT_PATTERNS /\ ~AfterCustomizing(text)}

Highest(S) ==
  IF "deny" \in S THEN "deny"
  ELSE IF "confirm" \in S THEN "confirm"
  ELSE IF "manage" \in S THEN "manage"
  ELSE IF "accept" \in S THEN "accept"
  ELSE "unknown"

NoCustomMatch ==
  \A c \in Categories : ~matchesCustomPatterns(lib.custom, lib.text, c)

\* C13: a label that no custom pattern matches is given the highest-priority intent
\* among the built-in families it matches, in the order Deny > Confirm > Manage >
\* Accept, and Unknown when it matches none.
C13_HighestPriority ==
  (lib.op = "classified" /\ NoCustomMatch) => lib.library = Highest(Matching(lib.text))

\* C14: whatever the custom patterns, a label that negates the rejection word is not
\* classified Deny, and "I do not agree" is classified Deny.
C14_NegatedRejection ==
  lib.op = "classified" =>
    /\ DoubleNegative(lib.text) => (lib.library # "deny" /\ lib.content # "reject")
    /\ lib.text = <<"i", "do", "not", "agree">> => lib.library = "deny"

\* C15: whatever the custom patterns, a label that matches an accept rule and
\* contains "selection" or "my choices" is classified Accept by neither classifier.
C15_SelectionNotAccept ==
  (lib.op = "classified" /\ AfterCustomizing(lib.text)) =>
    (lib.library # "accept" /\ lib.content # "accept")

\* C16: no control whose label classifies as Unknown is ever activated by a run.
C16_UnknownNeverActivated == \A e \in Activations : classOf(e.n) # "unknown"

\* A surface that qualifies structurally (privacy text, recently shown) and holds a
\* control labelled "Reject All".
RejectAllSurface ==
  /\ host.privacyKw /\ host.fresh
  /\ \E i \in DOMAIN btn : btn[i].place = "banner" /\ btn[i].text = <<"reject", "all">>

DenyActivated == \E e \in Activations : classOf(e.n) = "reject"

\* C17: on a qualifying surface with a "Reject All" control, a run that activates a
\* control activates the Deny control, and when the surface has closed the RunResult
\* says so, has a denied entry and names the direct click as its method.
C17_RejectAllDirectClick ==
  RejectAllSurface =>
    /\ Activations # {} => DenyActivated
    /\ \A r \in Runs : (pc[r] = "done" /\ ~vis.banner /\ DenyActivated) =>
         /\ result[r].bannerClosed
         /\ Len(result[r].unchecked) >= 1
         /\ result[r].cmpMethod = "button-click"

\* The forced hide is attempted in this step.
HideAttempted == \E e \in hist' \ hist : e.phase = "hide" /\ e.ev = "begin"

HiddenBy(r) == \E e \in hist : e.ev = "hide" /\ e.by = r

\* C18: the forced hide is attempted only when the RunResult does not say that an
\* earlier state closed the surface, and the RunResult of a run whose forced hide
\* closed the surface names the forced hide as its method.
C18_ForcedHideIsDistinct ==
  /\ [][HideAttempted => ~R.bannerClosed]_vars
  /\ [](\A r \in Runs : (pc[r] = "done" /\ HiddenBy(r)) =>
          result[r].cmpMethod = "banner-hide")

\* C19: a pattern is in the permanent rule set only with confidence >= 0.85, ten
\* uses and three sites, and a pattern that meets the three after a recorded success
\* is in the permanent rule set when the update has completed.
C19_Promotion ==
  lib.op = "learn" =>
    /\ lib.promoted => isReadyForLibrary(lib)
    /\ (lib.last = "success" /\ isReadyForLibrary(lib)) => lib.promoted

Formula(p) == QEq(p.confidence, confidenceOf(p.successCount, p.usageCount))

InRange(p) == QLeq(Q(1, 2), p.confidence) /\ QLeq(p.confidence, Q(1, 1))

\* The update that makes an auto-learned pattern a user-taught one.
Taught(p) == p.last = "success" /\ p.by = "user" /\ p.source = "user-taught"

\* C20 as stated: after every update of an existing pattern by a success or a failure
\* its confidence is the formula's value, successCount <= usageCount, and an
\* auto-learned pattern's confidence is within [0.5, 1.0].
C20_AsStated ==
  (lib.op = "learn" /\ lib.exists) =>
    /\ lib.last \in {"success", "failure"} => Formula(lib)
    /\ lib.successCount <= lib.usageCount
    /\ lib.source = "auto-learned" => InRange(lib)

\* C20: after every update of an existing pattern by a success or a failure its
\* confidence is the formula's value, except that the success recorded for the user
\* on an auto-learned pattern, which makes it user-taught, leaves the greater of that
\* value and 0.90; successCount <= usageCount, and the confidence is within
\* [0.5, 1.0].
C20_Confidence ==
  [][(lib.op = "learn" /\ lib.exists /\ lib' # lib) =>
       LET value == confidenceOf(lib'.successCount, lib'.usageCount)
       IN /\ IF lib.source = "auto-learned" /\ lib'.source = "user-taught"
             THEN QEq(lib'.confidence, QMax(value, Q(90, 100)))
             ELSE QEq(lib'.confidence, value)
          /\ lib'.successCount <= lib'.usageCount
          /\ InRange(lib')]_vars

\* A success recorded for the user has made an auto-learned pattern user-taught and
\* left it a confidence that is not the formula's value.
C20_Witness ==
  /\ lib.op = "learn" /\ Taught(lib)
  /\ lib.usageCount > 1
  /\ QEq(lib.confidence, Q(90, 100))
  /\ ~Formula(lib)

AtLeast90(c) == QLeq(Q(90, 100), c)

\* C21: a user-taught pattern has confidence >= 0.9 when it is created, when it is
\* converted from an auto-learned one, and when the rule for the permanent set is
\* built from it.
C21_UserTaughtFloor ==
  lib.op = "learn" =>
    /\ (lib.last = "created" /\ lib.source = "user-taught") => AtLeast90(lib.confidence)
    /\ (Taught(lib) /\ ~Formula(lib)) => AtLeast90(lib.confidence)
    /\ (lib.rule.built /\ lib.rule.source = "user-taught") =>
         AtLeast90(lib.rule.confidence)

InList(p, ps) == \E k \in DOMAIN ps : ps[k] = p

\* C22: age-based expiry removes no user-taught pattern, from the global store or
\* from a site's list; what it removes is auto-learned and past the expiry period.
C22_UserTaughtNeverExpires ==
  lib.op = "expire" =>
    /\ \A p \in lib.global : p.source = "user-taught" => p \in lib.globalNow
    /\ \A p \in lib.global \ lib.globalNow : p.source = "auto-learned" /\ p.unused
    /\ \A k \in DOMAIN lib.site :
         lib.site[k].method = "user-taught" => InList(lib.site[k], lib.siteNow)

Dropped(c) == lib.memory[c] - lib.stored[c]

\* C23: after a save the global store holds at most 500 patterns, and every pattern
\* it kept has a score confidence * usageCount at least that of every pattern it
\* dropped.
C23_GlobalCap ==
  (lib.op = "save" /\ lib.saved) =>
    /\ Total(lib.stored, InUse) <= MAX_LEARNED_PATTERNS_GLOBAL
    /\ \A c \in InUse : lib.stored[c] <= lib.memory[c]
    /\ Total(lib.memory, InUse) <= MAX_LEARNED_PATTERNS_GLOBAL => lib.stored = lib.memory
    /\ Total(lib.memory, InUse) > MAX_LEARNED_PATTERNS_GLOBAL =>
         Total(lib.stored, InUse) = MAX_LEARNED_PATTERNS_GLOBAL
    /\ \A c, d \in InUse : (lib.stored[c] > 0 /\ Dropped(d) > 0) => QLeq(score(d), score(c))

\* A save dropped patterns of two classes and kept patterns of two classes.
C23_Witness ==
  /\ lib.op = "save" /\ lib.saved
  /\ Cardinality({c \in InUse : Dropped(c) > 0}) >= 2
  /\ Cardinality({c \in InUse : lib.stored[c] > 0}) >= 2

Arrived == Pattern(<<"reject", "all">>, lib.selector, 1, FALSE)

Evicted == {k \in DOMAIN lib.list : ~InList(lib.list[k], lib.listNow)}

RemainingPanels == IF host.privacyKw THEN {m \in Document : vis[m]} ELSE {}

\* The inspection of the remaining panels raises a fault at one of their toggles.
PostFault(r) ==
  at(r, "w_unipost") /\ scrapeToggles(Bundle, RemainingPanels, "universal", r).threw

\* A toggle of a remaining panel that the inspection unchecks when it reaches it.
Uncheckable(i) ==
  /\ tog[i].place \in RemainingPanels
  /\ ~tog[i].disabled /\ tog[i].clickWorks /\ checked[i]
  /\ ~hasKeyword(tog[i].label \o tog[i].ctx, MANDATORY_KEYWORDS)

\* C25: a fault raised at one candidate while the structural handling inspects what
\* is left of the surface is caught there: the candidates after it are still
\* inspected, and the run goes on without an error entry for the fault.
C25_FaultSkipsOneCandidate ==
  [][\A r \in Runs : (PostFault(r) /\ pc'[r] # pc[r]) =>
       /\ \A i \in DOMAIN tog : Uncheckable(i) => ~checked'[i]
       /\ R'.errors = R.errors]_vars

\* C26: when activating a toggle does not change its state, the forced path is taken
\* exactly once, and a toggle that is still on afterwards gets an error entry instead
\* of a denied entry; a toggle is in the denied list only if it is off when recorded.
C26_UnchangedToggleIsAnError ==
  lib.op = "safeUnchecked" =>
    /\ (lib.on /\ ~lib.processed /\ lib.click = "ignored") =>
         /\ lib.forced = 1
         /\ lib.onNow => (lib.error /\ ~lib.denied)
    /\ lib.denied => ~lib.onNow

\* The fields of a RunResult that the collaborators consume.
ContractFields ==
  {"unchecked", "mandatory", "errors", "cmpDetected", "cmpMethod", "bannerFound",
   "bannerClosed", "totalTogglesFound", "sectionsProcessed", "iframesScanned",
   "actionLog", "consentOrPay", "runtime"}

\* The answer to RUN_CLEAN, built from what runDeny returned.
sendResponse(res) ==
  [success |-> TRUE, unchecked |-> res.unchecked, mandatory |-> res.mandatory,
   errors |-> res.errors, cmpDetected |-> res.cmpDetected, cmpMethod |-> res.cmpMethod,
   bannerFound |-> res.bannerFound, bannerClosed |-> res.bannerClosed,
   totalTogglesFound |-> res.totalTogglesFound, url |-> "href", title |-> "title"]

\* The fields of DSC_SCAN_COMPLETE and of the data-result attribute: R spread out,
\* with the fields of R that the model does not carry, and url, title and runtime.
scanComplete(res) ==
  ((DOMAIN res \ {"processedLabels", "hasProcessedLabels"})
     \cup {"startTime", "timestamp", "actionLog"})
  \cup {"url", "title", "runtime"}

Exported(r) == \E e \in hist : e.ev = "message" /\ e.by = r

\* C27: for every outcome of a run (normal completion, early success, pay-wall abort)
\* the answer to RUN_CLEAN and the result exported to the collaborators carry every
\* contract field of that run's RunResult.
C27_ResponseCarriesContract ==
  \A r \in Runs : pc[r] = "done" =>
    /\ ContractFields \subseteq DOMAIN sendResponse(result[r])
    /\ Exported(r)
    /\ ContractFields \subseteq scanComplete(result[r])

Scanned == lib' # lib /\ lib'.op = "scanned"

\* C28: handling SCAN_ONLY changes nothing: no click, toggle change, API call or hide,
\* no change of the RunResult or of the pattern store, no run started; the answer
\* reports the detected CMP label and the number of toggles of the document.
C28_ScanOnlyChangesNothing ==
  [][Scanned =>
       /\ UNCHANGED <<hist, vis, checked, R, result, store, learnedPatterns, pc, loc,
                      auto, teachingMode, teach>>
       /\ lib'.cmps = (IF detectCMPs = "null" THEN <<>> ELSE <<detectCMPs>>)
       /\ lib'.toggleCount = Len(SelectSeq(tog, LAMBDA t : t.place \in Document))]_vars

\* A scan while a run is in flight, on a page with a toggle that is not rendered.
C28_Witness ==
  /\ lib.op = "scanned"
  /\ \E r \in Runs : Active(r)
  /\ \E i \in DOMAIN tog : tog[i].place \in Document /\ ~isVisible(tog[i])
  /\ lib.toggleCount = 2

TimedOut == auto.timer /\ ~auto'.timer

Unloading == auto.observer /\ auto'.unloaded /\ ~auto.unloaded

Triggered == auto.pc # "w_obs" /\ auto'.pc = "w_obs"

Persists(p, ps) ==
  \E k \in DOMAIN ps :
    /\ ps[k].text = p.text /\ ps[k].selector = p.selector
    /\ ps[k].successCount >= p.successCount

\* C30: a learned pattern persisted for one site is never removed or reverted by a
\* later save of another run or tab, for a different pattern or site (the lists here
\* stay below the cap and nothing expires).
C30_SavesKeepOtherEntries ==
  [][lib.op = "tabs" =>
       \A s \in Tabs : \A k \in DOMAIN lib.storage[s] :
         Persists(lib.storage[s][k], lib'.storage[s])]_vars

\* Invocation r has just made its toggle sweep over the document.
Swept(r) == \E e \in hist' \ hist : e.ev = "begin" /\ e.phase = "sweep" /\ e.by = r

\* A rendered, enabled toggle of the document that is on and is not protected.
Deniable(i) ==
  /\ tog[i].place \in Document /\ isVisible(tog[i])
  /\ ~tog[i].disabled /\ checked[i]
  /\ ~hasKeyword(tog[i].label \o tog[i].ctx, MANDATORY_KW)

\* C31: after a toggle sweep over a surface, every visible, enabled toggle in it that
\* was on and is not protected is off, whatever its label and category.
C31_SweepTurnsEveryToggleOff ==
  [][\A r \in Runs : Swept(r) =>
       \A i \in DOMAIN tog : Deniable(i) => ~checked'[i]]_vars

DenyLabelled(i) ==
  HasWord(btn[i].text, {"reject", "decline", "deny"})
  \/ HasPhrase(btn[i].text, {<<"no", "thanks">>, <<"no", "thank">>})

AcceptLabelled(i) == HasWord(btn[i].text, {"accept", "agree", "allow", "yes"})

DecisionWord(i) ==
  HasWord(btn[i].text, {"accept", "reject", "agree", "disagree", "allow", "deny",
                        "decline", "refuse", "manage", "settings", "preferences"})

\* The page was loaded less than 60 s ago, or a panel-open time is referred to.
InWindow(withRef) == withRef \/ host.fresh

UniversalClicks(r) == {e \in hist : e.ev = "click" /\ e.phase = "universal" /\ e.by = r}

\* C33: after a Manage control is activated the surfaces are looked for again, with
\* the click time as recency reference and for at most 2 more levels, and only a
\* surface that was not processed is acted on: no surface is activated twice during a
\* run's structural handling.
C33_NoSurfaceTwice ==
  \A r \in Runs :
    /\ Cardinality(UniversalClicks(r)) <= 3
    /\ \A e, f \in UniversalClicks(r) : e # f => btn[e.n].place # btn[f.n].place
    /\ at(r, "w_uni3") => loc[r].modal2 # loc[r].modal

\* A Manage click in the banner was followed by a click in the panel it opened.
C33_Witness ==
  \E r \in Runs : \E e, f \in UniversalClicks(r) :
    /\ classOf(e.n) = "manage" /\ btn[e.n].place = "banner"
    /\ classOf(f.n) = "reject" /\ btn[f.n].place = "panel"

\* After toggle event e, invocation r clicked a Confirm control.
ConfirmedAfter(r, e) ==
  \E c \in hist : c.by = r /\ c.ev = "confirm" /\ PhaseNo(c.phase) >= PhaseNo(e.phase)

\* C34: whenever a toggle sweep has turned off a toggle, in the main page, a sub-panel
\* or an embedded frame, the run attempts to activate a Confirm control before it
\* ends; with such a control rendered, the attempt is a click on it.
C34_ConfirmAfterSweep ==
  \A r \in Runs : (pc[r] = "done" /\ tryConfirm # 0) =>
    \A e \in hist : (e.ev = "toggle" /\ e.by = r) => ConfirmedAfter(r, e)

\* Invocation r clicks the element of its next learned pattern.
Replays(r) == pc[r] = "p0" /\ pc'[r] = "w_p0"

\* Invocation r takes its learned replay for a success.
ReplaySucceeds(r) == pc[r] = "w_p0" /\ pc'[r] = "w_p0save"

SurfaceRendered == vis.banner \/ vis.panel

\* C35: learned replay tries the site's patterns in non-increasing order of success
\* count, stops at the first one whose activation makes the surface disappear,
\* reinforces only that pattern, and reports success only in that case.
C35_ReplayStopsAtFirstSuccess ==
  [][\A r \in Runs :
       /\ Replays(r) =>
            \A j \in 1..(loc'[r].i - 1) :
              loc[r].sorted[j].successCount >= loc[r].sorted[loc'[r].i].successCount
       /\ ReplaySucceeds(r) =>
            /\ ~SurfaceRendered
            /\ Len(store') = Len(store)
            /\ \A k \in DOMAIN store :
                 IF store[k].text = loc[r].sorted[loc[r].i].text
                    /\ store[k].selector = loc[r].sorted[loc[r].i].selector
                 THEN store'[k].successCount <= store[k].successCount + 1
                 ELSE store'[k] = store[k]
       /\ (pc[r] = "w_p0save" /\ pc'[r] # pc[r]) => pc'[r] = "done"]_vars

\* A failure has just been recorded for the pattern.
FailureRecorded == lib.op = "learn" /\ lib.exists /\ lib'.usageCount = lib.usageCount + 1
                   /\ lib'.successCount = lib.successCount

\* C36: recording a failure for an existing pattern never raises its confidence, and
\* strictly lowers it whenever the pattern has at least one recorded success.
C36_FailureLowersConfidence ==
  [][FailureRecorded =>
       /\ QLeq(lib'.confidence, lib.confidence)
       /\ lib.successCount >= 1 => ~QEq(lib'.confidence, lib.confidence)]_vars

\* C37: the final de-duplication removes an entry only if an earlier entry has the
\* same (label, category, kind) key; entries that differ in a component of the key are
\* all retained.
C37_DedupeByFullKey ==
  lib.op = "deduped" =>
    \A k \in DOMAIN lib.arr :
      \/ InList(lib.arr[k], lib.out)
      \/ \E j \in 1..(k - 1) : Key(lib.arr[j]) = Key(lib.arr[k])

\* The DSC_SCAN_COMPLETE messages of invocation r.
ScanCompleteSent(r) == {e \in hist : e.ev = "message" /\ e.by = r}

\* C38: every run that completes, the runs that end by pay-wall abort, learned-replay
\* success or structural-handling success included, sends exactly one
\* DSC_SCAN_COMPLETE message with its result.
C38_OneScanComplete ==
  \A r \in Runs : pc[r] = "done" => Cardinality(ScanCompleteSent(r)) = 1

\* C39: in every RunResult delivered to a caller, surface closed implies surface found.
C39_ClosedImpliesFound ==
  \A r \in Runs : pc[r] = "done" => (result[r].bannerClosed => result[r].bannerFound)


\* C40: after learnFromSuccess has returned true, the pattern of that label is in
\* the global store, also when the store held 500 patterns before the call.
C40_LearnedPatternIsStored ==
  (lib.op = "learnFromSuccess" /\ lib.returned = "true") => lib.present

====
